---- MODULE Spec2Model ----
(***************************************************************************)
(* Model of BacktestEngine (src/回测脚本.py): the per-bar simulation loop   *)
(* of run_backtest, the open and close transactions, and the strategy      *)
(* function macd_ema_strategy (src/策略_5分钟.py).                          *)
(*                                                                         *)
(* Prices and money are Python floats in the source.  The model computes   *)
(* with exact rationals [n |-> numerator, d |-> denominator > 0] in lowest *)
(* terms, so equality of two amounts is equality of records; float         *)
(* rounding is not modelled.                                               *)
(*                                                                         *)
(* Three further specifications model the other modules, each over its own *)
(* variables: SignalSpec the signal backtest and its indicators            *)
(* (src/回测模块.py), RetrySpec the retry decorator around a price request  *)
(* (src/数据获取模块.py), MartingaleSpec the martingale add-on strategy      *)
(* (src/策略模块.py).                                                       *)
(***************************************************************************)
EXTENDS Integers, Sequences, FiniteSets, TLC

(***************************************************************************)
(* Bounds of the model.                                                    *)
(***************************************************************************)
MaxBars == 2
MaxRuns == 2

(***************************************************************************)
(* Exact rational arithmetic standing for the source's float arithmetic.   *)
(***************************************************************************)
Abs(x) == IF x < 0 THEN -x ELSE x

RECURSIVE GCD(_, _)
GCD(a, b) == IF b = 0 THEN a ELSE GCD(b, a % b)

R(n, d) ==
    LET g == GCD(Abs(n), Abs(d))
        s == IF d < 0 THEN -1 ELSE 1
    IN  [n |-> s * (n \div g), d |-> s * (d \div g)]

RI(k) == [n |-> k, d |-> 1]

Zero == RI(0)

RNeg(a) == [n |-> -a.n, d |-> a.d]

RAdd(a, b) ==
    LET g == GCD(a.d, b.d)
    IN  R(a.n * (b.d \div g) + b.n * (a.d \div g), (a.d \div g) * b.d)

RSub(a, b) == RAdd(a, RNeg(b))

RMul(a, b) ==
    LET g1 == GCD(Abs(a.n), b.d)
        g2 == GCD(Abs(b.n), a.d)
    IN  R((a.n \div g1) * (b.n \div g2), (a.d \div g2) * (b.d \div g1))

\* a / b for b # 0 (the source divides only behind a guard that the divisor is positive)
RDiv(a, b) == RMul(a, R(b.d, b.n))

RLe(a, b) ==
    LET g == GCD(a.d, b.d)
    IN  a.n * (b.d \div g) <= b.n * (a.d \div g)

RLt(a, b) == RLe(a, b) /\ a # b

RAbs(a) == [n |-> Abs(a.n), d |-> a.d]

RMax(a, b) == IF RLe(a, b) THEN b ELSE a

(***************************************************************************)
(* Python's None and optional values: None is the empty tuple, a present   *)
(* value x is <<x>>.                                                       *)
(***************************************************************************)
None == <<>>

Some(x) == <<x>>

(***************************************************************************)
(* Configuration records: the constructor arguments of BacktestEngine.     *)
(* ScenarioA is the configuration of the main script with no commission;   *)
(* Fees charges a commission on both sides; NoLeverage makes the margin of *)
(* every sized position exceed the equity; ZeroStop has a stop-loss        *)
(* percentage of 0; NoTarget has a reward ratio of 0 (no take-profit);     *)
(* FullMargin makes margin + commission of a sized position exactly the    *)
(* equity (risk = stop percentage, leverage 1, no commission), and its     *)
(* reward ratio of 5 puts the profit target of a Short below a price of 0. *)
(***************************************************************************)
Config(capital, rate, risk, stop, reward, lev) ==
    [initial_capital |-> capital, commission_rate |-> rate, risk_per_trade |-> risk,
     stop_loss_percentage |-> stop, reward_ratio |-> reward, leverage |-> lev]

ScenarioA == Config(RI(10000), Zero, R(1, 50), R(1, 50), R(3, 2), RI(10))

Fees == Config(RI(1024), R(1, 8), R(1, 4), R(1, 4), RI(1), RI(10))

NoLeverage == Config(RI(1024), R(1, 8), R(1, 4), R(1, 4), RI(1), RI(1))

ZeroStop == Config(RI(1024), R(1, 8), R(1, 4), Zero, RI(1), RI(10))

NoTarget == Config(RI(1024), R(1, 8), R(1, 4), R(1, 4), Zero, RI(10))

FullMargin == Config(RI(1024), Zero, R(1, 4), R(1, 4), RI(5), RI(1))

Configs == {ScenarioA, Fees, NoLeverage, ZeroStop, NoTarget, FullMargin}

(***************************************************************************)
(* The rows 获取K线数据 can return, by kind.  A row of the frame is          *)
(* [timestamp, kind]; its columns are read through BarShape.  nan_ohlcv: a *)
(* row pd.to_numeric left with a NaN in open/high/low/close/volume;        *)
(* nan_indicator: a warm-up row whose long_ema / macd_hist /               *)
(* prev_macd_hist is NaN; nan_sma: the value of the `sma` column is NaN.   *)
(***************************************************************************)
Shape(h, l, c, ema, hist, prev) ==
    [high |-> h, low |-> l, close |-> c, long_ema |-> ema, macd_hist |-> hist,
     prev_macd_hist |-> prev, nan_ohlcv |-> FALSE, nan_indicator |-> FALSE, nan_sma |-> FALSE]

BarShape(kind) ==
    CASE kind = "LongSignal"  -> Shape(101, 99, 100, 90, 1, -1)
      [] kind = "ShortSignal" -> Shape(101, 99, 100, 110, -1, 1)
      [] kind = "Down"        -> Shape(101, 70, 80, 110, 1, 0)
      [] kind = "Up"          -> Shape(130, 99, 120, 110, -1, 0)
      [] kind = "Wide"        -> Shape(130, 70, 100, 90, 1, 0)
      [] kind = "BadPrice"    -> Shape(101, 0, 0, 90, 1, 1)
      [] kind = "SmaNaN"      -> [Shape(101, 99, 100, 90, 1, -1) EXCEPT !.nan_sma = TRUE]
      [] kind = "NaNRow"      -> [Shape(101, 99, 100, 90, 1, 1) EXCEPT !.nan_ohlcv = TRUE]
      [] kind = "WarmUp"      -> [Shape(101, 99, 100, 90, 1, 1) EXCEPT !.nan_indicator = TRUE]

Kinds == {"LongSignal", "ShortSignal", "Down", "Up", "Wide", "BadPrice", "SmaNaN",
          "NaNRow", "WarmUp"}

High(bar) == RI(BarShape(bar.kind).high)

Low(bar) == RI(BarShape(bar.kind).low)

Close(bar) == RI(BarShape(bar.kind).close)

\* The frames the bar source can yield: up to MaxBars rows with increasing
\* timestamps; indicator warm-up rows come first (EMA, MACD and shift(1) leave
\* NaN only at the start of the frame).
KindSeqs ==
    { g \in UNION { [1..m -> Kinds] : m \in 0..MaxBars } :
        \A k \in 2..Len(g) : g[k] = "WarmUp" => g[k - 1] = "WarmUp" }

Frames == { [k \in 1..Len(g) |-> [timestamp |-> k, kind |-> g[k]]] : g \in KindSeqs }

\* The K-line intervals the engine is constructed with: "5m" is the main
\* script's (line 603), "3d" a longer one the data source accepts.
Intervals == {"5m", "3d"}

VARIABLES
    cfg,                \* the constructor arguments (lines 39-45)
    source,             \* the frame the bar source holds for the engine's time range
    sma_column,         \* whether that frame has a column named `sma`
    interval,           \* self.interval: the time between two rows of the frame
    historical_data,    \* self.historical_data: None or Some(frame)
    status,             \* where run_backtest is: idle, running, completed, aborted, raised
    i,                  \* index of the next row of the itertuples loop
    runs,               \* number of run_backtest calls made on this engine
    equity,             \* self.equity
    position,           \* self.position: None or Some(position record)
    trades,             \* self.trades
    portfolio_history,  \* self.portfolio_history
    closed_trade_pnl,   \* self.closed_trade_pnl
    total_profit,       \* self.total_profit
    total_loss,         \* self.total_loss
    winning_trades,     \* self.winning_trades
    losing_trades,      \* self.losing_trades
    metrics_calls,      \* _calculate_metrics invocations of the current call
    report,             \* what _calculate_metrics logged in the current call, or None
    error_log,          \* logger.error messages of the current call's data stage
    last_event,         \* what the loop did with the latest row
    queried,            \* whether macd_ema_strategy was called for the latest row
    \* 执行回测 and 计算绩效指标 (src/回测模块.py)
    kline_data,         \* k线数据 joined with 交易信号: None or Some(rows)
    fee_rate,           \* 手续费率
    row_hours,          \* hours between the dates of two rows of the index
    row_no,             \* the row `for 日期, row in data.iterrows()` handles next
    cash,               \* 现金
    holdings,           \* 持仓量
    holding_cost,       \* 持仓成本总额
    value_history,      \* 账户总值历史: the values assigned so far, by row
    trade_log,          \* 交易记录
    last_total_value,   \* last_total_value
    backtest_result,    \* what 执行回测 returned: None or Some(结果)
    indicators,         \* what 计算绩效指标 returned: None before the call
    signal_pc,          \* idle, looping, returned, measured
    \* _retry_on_api_error and 获取最新价格 (src/数据获取模块.py)
    api_answers,        \* what the exchange does on the 1st, 2nd, ... request
    client_ready,       \* whether the module's `client` was created
    symbol,             \* the argument of 获取最新价格: None or Some(name)
    retries,            \* wrapper's local `retries`
    attempts,           \* number of times wrapper has called func
    requests,           \* number of requests sent to the exchange
    call_result,        \* what wrapper returned: None or Some(value)
    retry_pc,           \* idle, calling, sleeping, returned
    \* 马丁格尔加仓策略 (src/策略模块.py)
    analysis_data,      \* 分析数据
    position_state,     \* 持仓状态: None or Some(dict)
    strategy_params,    \* 策略参数_输入
    signal_output,      \* the dict the strategy returned: None before the call
    position_state_after \* 持仓状态 as the caller finds it after the call

vars == <<cfg, source, sma_column, interval, historical_data, status, i, runs, equity, position,
          trades, portfolio_history, closed_trade_pnl, total_profit, total_loss,
          winning_trades, losing_trades, metrics_calls, report, error_log, last_event,
          queried,
          kline_data, fee_rate, row_hours, row_no, cash, holdings, holding_cost,
          value_history, trade_log, last_total_value, backtest_result, indicators,
          signal_pc,
          api_answers, client_ready, symbol, retries, attempts, requests, call_result,
          retry_pc,
          analysis_data, position_state, strategy_params, signal_output,
          position_state_after>>

\* The state of 执行回测 / 计算绩效指标.
signal_backtest == <<kline_data, fee_rate, row_hours, row_no, cash, holdings, holding_cost,
                     value_history, trade_log, last_total_value, backtest_result,
                     indicators, signal_pc>>

\* The state of a call through _retry_on_api_error.
retry_call == <<api_answers, client_ready, symbol, retries, attempts, requests,
                call_result, retry_pc>>

\* The arguments and the result of 马丁格尔加仓策略.
martingale == <<analysis_data, position_state, strategy_params, signal_output,
                position_state_after>>

\* What run_backtest never writes: the engine's configuration and data source,
\* and the state of the other modules.
environment == <<cfg, source, sma_column, interval, signal_backtest, retry_call, martingale>>

account == <<equity, position, trades, closed_trade_pnl, total_profit, total_loss,
             winning_trades, losing_trades>>

\* No call of 执行回测 is under way.
SignalBacktestIdle ==
    /\ kline_data = <<>>
    /\ fee_rate = [n |-> 0, d |-> 1]
    /\ row_hours = 0
    /\ row_no = 1
    /\ cash = [n |-> 0, d |-> 1]
    /\ holdings = [n |-> 0, d |-> 1]
    /\ holding_cost = [n |-> 0, d |-> 1]
    /\ value_history = <<>>
    /\ trade_log = <<>>
    /\ last_total_value = [n |-> 0, d |-> 1]
    /\ backtest_result = <<>>
    /\ indicators = <<>>
    /\ signal_pc = "idle"

\* No call through _retry_on_api_error is under way.
RetryIdle ==
    /\ api_answers = <<>>
    /\ client_ready = FALSE
    /\ symbol = <<>>
    /\ retries = 0
    /\ attempts = 0
    /\ requests = 0
    /\ call_result = <<>>
    /\ retry_pc = "idle"

\* 马丁格尔加仓策略 is not being called.
MartingaleIdle ==
    /\ analysis_data = <<>>
    /\ position_state = <<>>
    /\ strategy_params = <<>>
    /\ signal_output = <<>>
    /\ position_state_after = <<>>

\* __init__ (lines 39-52).  The counters of lines 349-353 do not exist before
\* the first run reaches them; they start here at the values they are created with.
\* The frame and its columns are the bar source's: 获取K线数据 as it stands
\* returns frames without an `sma` column (sma_column = FALSE), and the loop
\* gets past line 362 only on a frame whose source supplies that column.
Init ==
    /\ cfg \in Configs
    /\ source \in Frames
    /\ sma_column \in BOOLEAN
    /\ interval \in Intervals
    /\ historical_data = None
    /\ status = "idle"
    /\ i = 1
    /\ runs = 0
    /\ equity = cfg.initial_capital
    /\ position = None
    /\ trades = <<>>
    /\ portfolio_history = <<>>
    /\ closed_trade_pnl = <<>>
    /\ total_profit = Zero
    /\ total_loss = Zero
    /\ winning_trades = 0
    /\ losing_trades = 0
    /\ metrics_calls = 0
    /\ report = None
    /\ error_log = <<>>
    /\ last_event = "none"
    /\ queried = FALSE
    /\ SignalBacktestIdle
    /\ RetryIdle
    /\ MartingaleIdle

(***************************************************************************)
(* _fetch_data (lines 74-87): stores what 获取K线数据 returned and fails    *)
(* when it is None or an empty frame.                                      *)
(***************************************************************************)
FetchDataOk(fetched) == fetched # None /\ fetched[1] # <<>>

\* Line 116: dropna over the OHLCV columns.
IsCleanRow(bar) == ~BarShape(bar.kind).nan_ohlcv

\* Lines 188-189: dropna over close, long_ema, macd_hist, prev_macd_hist.
HasIndicators(bar) == ~BarShape(bar.kind).nan_indicator

\* Mutant of PrepareData: the two "frame is empty" checks are missing.
PrepareData_NoEmptyCheck(frame) ==
    [ok |-> TRUE, data |-> SelectSeq(SelectSeq(frame, IsCleanRow), HasIndicators),
     error |-> <<>>]

\* _prepare_data (lines 89-199) on a fetched frame: the frame it leaves in
\* self.historical_data, whether it returned True, and the error it logged.
PrepareData(frame) ==
    LET cleaned == SelectSeq(frame, IsCleanRow)
        ready == SelectSeq(cleaned, HasIndicators)
    IN  IF cleaned = <<>>
        THEN [ok |-> FALSE, data |-> cleaned, error |-> <<"empty after cleaning">>]
        ELSE IF ready = <<>>
             THEN [ok |-> FALSE, data |-> ready, error |-> <<"empty after indicators">>]
             ELSE [ok |-> TRUE, data |-> ready, error |-> <<>>]

(***************************************************************************)
(* macd_ema_strategy (src/策略_5分钟.py lines 164-239): the signal for a   *)
(* row, given the position.                                                *)
(***************************************************************************)
macd_ema_strategy(bar, pos) ==
    LET b == BarShape(bar.kind)
        is_uptrend == b.close > b.long_ema
        is_downtrend == b.close < b.long_ema
        hist_crossed_above_zero == b.macd_hist > 0 /\ b.prev_macd_hist <= 0
        hist_crossed_below_zero == b.macd_hist < 0 /\ b.prev_macd_hist >= 0
    IN  IF b.nan_ohlcv \/ b.nan_indicator THEN "HOLD"
        ELSE IF pos = None /\ hist_crossed_above_zero /\ is_uptrend THEN "LONG"
        ELSE IF pos = None /\ hist_crossed_below_zero /\ is_downtrend THEN "SHORT"
        ELSE "HOLD"

(***************************************************************************)
(* The account fields the open and close transactions read and write.      *)
(***************************************************************************)
Account ==
    [equity |-> equity, position |-> position, trades |-> trades,
     closed_trade_pnl |-> closed_trade_pnl, total_profit |-> total_profit,
     total_loss |-> total_loss, winning_trades |-> winning_trades,
     losing_trades |-> losing_trades]

SetAccount(a) ==
    /\ equity' = a.equity
    /\ position' = a.position
    /\ trades' = a.trades
    /\ closed_trade_pnl' = a.closed_trade_pnl
    /\ total_profit' = a.total_profit
    /\ total_loss' = a.total_loss
    /\ winning_trades' = a.winning_trades
    /\ losing_trades' = a.losing_trades

\* Mutant of TakeProfitPrice: the take-profit of a Short is not clamped at 0.
TakeProfitPrice_NoClamp(action, price, stop_loss_price) ==
    LET risk_per_contract == RAbs(RSub(price, stop_loss_price))
        profit_target_per_contract == RMul(risk_per_contract, cfg.reward_ratio)
    IN  IF RLt(Zero, cfg.reward_ratio) /\ RLt(Zero, risk_per_contract)
        THEN IF action = "OPEN_LONG"
             THEN Some(RAdd(price, profit_target_per_contract))
             ELSE Some(RSub(price, profit_target_per_contract))
        ELSE None

\* Lines 205-221: the take-profit price of a position opened at price with
\* the given stop, or None.
TakeProfitPrice(action, price, stop_loss_price) ==
    LET risk_per_contract == RAbs(RSub(price, stop_loss_price))
        profit_target_per_contract == RMul(risk_per_contract, cfg.reward_ratio)
    IN  IF RLt(Zero, cfg.reward_ratio) /\ RLt(Zero, risk_per_contract)
        THEN IF action = "OPEN_LONG"
             THEN Some(RAdd(price, profit_target_per_contract))
             ELSE Some(RMax(Zero, RSub(price, profit_target_per_contract)))
        ELSE None

\* Mutant of FundsSufficient: the margin is left out of the check.
FundsSufficient_CommissionOnly(eq, margin_required, commission) == RLe(commission, eq)

\* Mutant of FundsSufficient: `>` in place of `>=`.
FundsSufficient_Strict(eq, margin_required, commission) ==
    RLt(RAdd(margin_required, commission), eq)

\* Lines 225 and 255: the margin and commission check of an open.
FundsSufficient(eq, margin_required, commission) ==
    RLe(RAdd(margin_required, commission), eq)

\* _execute_trade (lines 201-283) for OPEN_LONG / OPEN_SHORT: the account
\* after the call and the value returned.
ExecuteTrade(a, action, price, size, timestamp, stop_loss_price, margin_required) ==
    LET notional_value == RMul(size, price)
        commission == RMul(notional_value, cfg.commission_rate)
        take_profit_price == TakeProfitPrice(action, price, stop_loss_price)
        equity_after == RSub(a.equity, commission)
    IN  IF FundsSufficient(a.equity, margin_required, commission)
        THEN [ok |-> TRUE,
              acct |-> [a EXCEPT
                  !.equity = equity_after,
                  !.position = Some(
                      [direction |-> IF action = "OPEN_LONG" THEN "LONG" ELSE "SHORT",
                       entry_price |-> price,
                       size |-> size,
                       stop_loss_price |-> stop_loss_price,
                       take_profit_price |-> take_profit_price,
                       entry_timestamp |-> timestamp,
                       margin_used |-> margin_required,
                       open_commission |-> commission]),
                  !.trades = Append(a.trades,
                      [timestamp |-> timestamp,
                       action |-> action,
                       price |-> price,
                       size |-> size,
                       commission |-> commission,
                       margin_required |-> margin_required,
                       equity_after |-> equity_after])]]
        ELSE [ok |-> FALSE, acct |-> a]

\* Line 309: the net PnL of a close.
NetPnl(pnl_raw, open_commission, close_commission) ==
    RSub(pnl_raw, RAdd(open_commission, close_commission))

\* _close_trade (lines 285-341): the account after closing the open position
\* at price.  Called only with a position open.
CloseTrade(a, price, timestamp, reason) ==
    LET pos == a.position[1]
        close_size == pos.size
        entry_price == pos.entry_price
        open_commission == pos.open_commission
        close_commission == RMul(RMul(close_size, price), cfg.commission_rate)
        total_commission == RAdd(open_commission, close_commission)
        pnl_raw == IF pos.direction = "LONG"
                   THEN RMul(RSub(price, entry_price), close_size)
                   ELSE RMul(RSub(entry_price, price), close_size)
        pnl_net == NetPnl(pnl_raw, open_commission, close_commission)
        equity_after == RAdd(a.equity, pnl_net)
        won == RLt(Zero, pnl_net)
    IN  [a EXCEPT
            !.equity = equity_after,
            !.trades = Append(a.trades,
                [timestamp |-> timestamp,
                 action |-> IF pos.direction = "LONG" THEN "CLOSE_LONG" ELSE "CLOSE_SHORT",
                 price |-> price,
                 size |-> close_size,
                 pnl |-> pnl_net,
                 commission |-> total_commission,
                 equity_after |-> equity_after,
                 reason |-> reason]),
            !.closed_trade_pnl = Append(a.closed_trade_pnl, pnl_net),
            !.total_profit = IF won THEN RAdd(a.total_profit, pnl_net) ELSE a.total_profit,
            !.winning_trades = IF won THEN a.winning_trades + 1 ELSE a.winning_trades,
            !.total_loss = IF won THEN a.total_loss ELSE RAdd(a.total_loss, RAbs(pnl_net)),
            !.losing_trades = IF won THEN a.losing_trades ELSE a.losing_trades + 1,
            !.position = None]

(***************************************************************************)
(* run_backtest (lines 343-516).                                           *)
(***************************************************************************)
Data == historical_data[1]

Bar == Data[i]

InLoop == status = "running" /\ i <= Len(Data)

\* Line 364: rows the loop passes over (after dropna the close is never NaN).
SkipBar(bar) == RLe(Close(bar), Zero) \/ BarShape(bar.kind).nan_sma

\* The stop-loss tested on the row's close.
StopLossTriggered_OnClose(pos, bar) ==
    \/ pos.direction = "LONG" /\ RLe(Close(bar), pos.stop_loss_price)
    \/ pos.direction = "SHORT" /\ RLe(pos.stop_loss_price, Close(bar))

\* Lines 387-392: the stop-loss test on the row's high/low.
StopLossTriggered(pos, bar) ==
    \/ pos.direction = "LONG" /\ RLe(Low(bar), pos.stop_loss_price)
    \/ pos.direction = "SHORT" /\ RLe(pos.stop_loss_price, High(bar))

\* Lines 402-425: the take-profit test on the row's high/low.
TakeProfitTriggered(pos, bar) ==
    /\ pos.take_profit_price # None
    /\ \/ pos.direction = "LONG" /\ RLe(pos.take_profit_price[1], High(bar))
       \/ pos.direction = "SHORT" /\ RLe(Low(bar), pos.take_profit_price[1])

\* Lines 436-452: the strategy is called only with no position open.
EntrySignal(pos, bar) == IF pos = None THEN macd_ema_strategy(bar, pos) ELSE "HOLD"

\* Lines 461 and 483.
StopLossPrice(signal, execution_price) ==
    IF signal = "LONG"
    THEN RMul(execution_price, RSub(RI(1), cfg.stop_loss_percentage))
    ELSE RMul(execution_price, RAdd(RI(1), cfg.stop_loss_percentage))

\* Mutant of PotentialLossPerContract: the stop price is not subtracted.
PotentialLossPerContract_NoStop(signal, execution_price, stop_loss_price) == execution_price

\* Lines 463 and 484.
PotentialLossPerContract(signal, execution_price, stop_loss_price) ==
    IF signal = "LONG"
    THEN RSub(execution_price, stop_loss_price)
    ELSE RSub(stop_loss_price, execution_price)

\* Mutant of PositionSize: the risk amount is not divided by the loss per contract.
PositionSize_NotPerContract(eq, potential_loss_per_contract) == RMul(eq, cfg.risk_per_trade)

\* Lines 467-468 and 488-489.
PositionSize(eq, potential_loss_per_contract) ==
    RDiv(RMul(eq, cfg.risk_per_trade), potential_loss_per_contract)

\* Mutant of MarginRequired: the notional value is not divided by the leverage.
MarginRequired_NoLeverage(size, execution_price) == RMul(size, execution_price)

\* Lines 469-470 and 490-491.
MarginRequired(size, execution_price) == RDiv(RMul(size, execution_price), cfg.leverage)

\* Lines 456-499: what a LONG or SHORT signal does to the account, and the
\* event the loop logs for it.
OpenAttempt(a, signal, bar) ==
    LET execution_price == Close(bar)
        stop_loss_price == StopLossPrice(signal, execution_price)
        potential_loss_per_contract ==
            PotentialLossPerContract(signal, execution_price, stop_loss_price)
        size == PositionSize(a.equity, potential_loss_per_contract)
        margin_required == MarginRequired(size, execution_price)
        done == ExecuteTrade(a, IF signal = "LONG" THEN "OPEN_LONG" ELSE "OPEN_SHORT",
                             execution_price, size, bar.timestamp, stop_loss_price,
                             margin_required)
    IN  IF RLe(potential_loss_per_contract, Zero)
        THEN [acct |-> a, event |-> "invalid_risk"]
        ELSE IF ~RLt(Zero, size)
             THEN [acct |-> a, event |-> "no_size"]
             ELSE IF done.ok
                  THEN [acct |-> done.acct, event |-> "opened"]
                  ELSE [acct |-> a, event |-> "insufficient_funds"]

\* Lines 456-499 for any signal.
Entry(a, signal, bar) ==
    IF signal \in {"LONG", "SHORT"} /\ a.position = None
    THEN OpenAttempt(a, signal, bar)
    ELSE [acct |-> a, event |-> IF a.position = None THEN "hold" ELSE "holding"]

\* Lines 501-510: the value recorded for the row at the end of the iteration.
PortfolioValue(a, bar) ==
    IF a.position = None
    THEN a.equity
    ELSE LET pos == a.position[1]
             unrealized_pnl ==
                 IF pos.direction = "LONG"
                 THEN RMul(RSub(Close(bar), pos.entry_price), pos.size)
                 ELSE RMul(RSub(pos.entry_price, Close(bar)), pos.size)
         IN  RAdd(a.equity, unrealized_pnl)

EquityPoint(timestamp, value) == [timestamp |-> timestamp, equity |-> value]

NewCall ==
    /\ status \in {"idle", "completed", "aborted", "raised"}
    /\ runs < MaxRuns
    /\ runs' = runs + 1
    /\ metrics_calls' = 0
    /\ report' = None
    /\ last_event' = "none"
    /\ queried' = FALSE

\* Lines 343-346: the call ends before the loop because _fetch_data or
\* _prepare_data returned False.
RunBacktestAborted ==
    /\ NewCall
    /\ \E fetched \in {None, Some(source)} :
         IF ~FetchDataOk(fetched)
         THEN /\ historical_data' = fetched
              /\ error_log' = <<"fetch failed or empty", "data preparation failed">>
         ELSE LET prep == PrepareData(fetched[1])
              IN  /\ ~prep.ok
                  /\ historical_data' = Some(prep.data)
                  /\ error_log' = prep.error \o <<"data preparation failed">>
    /\ status' = "aborted"
    /\ UNCHANGED <<environment, account, portfolio_history, i>>

\* Lines 343-355: data fetched and prepared, the counters created, the loop entered.
RunBacktestStarted ==
    /\ NewCall
    /\ FetchDataOk(Some(source))
    /\ LET prep == PrepareData(source)
       IN  /\ prep.ok
           /\ historical_data' = Some(prep.data)
    /\ error_log' = <<>>
    /\ closed_trade_pnl' = <<>>
    /\ total_profit' = Zero
    /\ total_loss' = Zero
    /\ winning_trades' = 0
    /\ losing_trades' = 0
    /\ i' = 1
    /\ status' = "running"
    /\ UNCHANGED <<environment, equity, position, trades, portfolio_history>>

\* Line 362: bar.sma on a frame with no `sma` column raises AttributeError,
\* which nothing catches: the call ends there, the loop and the metrics with it.
BarRaises ==
    /\ InLoop
    /\ ~sma_column
    /\ status' = "raised"
    /\ UNCHANGED <<environment, account, historical_data, i, runs, portfolio_history,
                   metrics_calls, report, error_log, last_event, queried>>

\* Lines 364-366.
BarSkipped ==
    /\ InLoop
    /\ sma_column
    /\ SkipBar(Bar)
    /\ portfolio_history' = Append(portfolio_history, EquityPoint(Bar.timestamp, equity))
    /\ i' = i + 1
    /\ last_event' = "skipped"
    /\ queried' = FALSE
    /\ UNCHANGED <<environment, account, historical_data, status, runs, metrics_calls,
                   report, error_log>>

\* Mutant of BarStopLoss: the take-profit is tested before the stop-loss, so a
\* row that crosses both closes at the take-profit price.
BarStopLoss_TargetFirst ==
    /\ InLoop
    /\ sma_column
    /\ ~SkipBar(Bar)
    /\ position # None
    /\ StopLossTriggered(position[1], Bar)
    /\ LET a == IF TakeProfitTriggered(position[1], Bar)
                THEN CloseTrade(Account, position[1].take_profit_price[1], Bar.timestamp,
                                "TakeProfit")
                ELSE CloseTrade(Account, position[1].stop_loss_price, Bar.timestamp,
                                "StopLoss")
       IN  /\ SetAccount(a)
           /\ portfolio_history' =
                  Append(portfolio_history, EquityPoint(Bar.timestamp, a.equity))
    /\ i' = i + 1
    /\ last_event' = IF TakeProfitTriggered(position[1], Bar) THEN "take_profit"
                     ELSE "stop_loss"
    /\ queried' = FALSE
    /\ UNCHANGED <<environment, historical_data, status, runs, metrics_calls, report,
                   error_log>>

\* Mutant of BarStopLoss: the `continue` after the stop-loss close is missing,
\* so the iteration goes on to the strategy and the entry logic.
BarStopLoss_Reenters ==
    /\ InLoop
    /\ sma_column
    /\ ~SkipBar(Bar)
    /\ position # None
    /\ StopLossTriggered(position[1], Bar)
    /\ LET a == CloseTrade(Account, position[1].stop_loss_price, Bar.timestamp, "StopLoss")
           out == Entry(a, EntrySignal(None, Bar), Bar)
       IN  /\ SetAccount(out.acct)
           /\ portfolio_history' =
                  Append(Append(portfolio_history, EquityPoint(Bar.timestamp, a.equity)),
                         EquityPoint(Bar.timestamp, PortfolioValue(out.acct, Bar)))
    /\ i' = i + 1
    /\ last_event' = "stop_loss"
    /\ queried' = TRUE
    /\ UNCHANGED <<environment, historical_data, status, runs, metrics_calls, report,
                   error_log>>

\* Lines 368-398: the stop-loss closes the position; the iteration ends there.
BarStopLoss ==
    /\ InLoop
    /\ sma_column
    /\ ~SkipBar(Bar)
    /\ position # None
    /\ StopLossTriggered(position[1], Bar)
    /\ LET a == CloseTrade(Account, position[1].stop_loss_price, Bar.timestamp, "StopLoss")
       IN  /\ SetAccount(a)
           /\ portfolio_history' =
                  Append(portfolio_history, EquityPoint(Bar.timestamp, a.equity))
    /\ i' = i + 1
    /\ last_event' = "stop_loss"
    /\ queried' = FALSE
    /\ UNCHANGED <<environment, historical_data, status, runs, metrics_calls, report,
                   error_log>>

\* Mutant of BarTakeProfit: the close is made without a reason, so the record
\* carries _close_trade's default reason "Signal".
BarTakeProfit_DefaultReason ==
    /\ InLoop
    /\ sma_column
    /\ ~SkipBar(Bar)
    /\ position # None
    /\ ~StopLossTriggered(position[1], Bar)
    /\ TakeProfitTriggered(position[1], Bar)
    /\ LET a == CloseTrade(Account, position[1].take_profit_price[1], Bar.timestamp,
                           "Signal")
       IN  /\ SetAccount(a)
           /\ portfolio_history' =
                  Append(portfolio_history, EquityPoint(Bar.timestamp, a.equity))
    /\ i' = i + 1
    /\ last_event' = "take_profit"
    /\ queried' = FALSE
    /\ UNCHANGED <<environment, historical_data, status, runs, metrics_calls, report,
                   error_log>>

\* Lines 400-431: the take-profit closes the position; the iteration ends there.
BarTakeProfit ==
    /\ InLoop
    /\ sma_column
    /\ ~SkipBar(Bar)
    /\ position # None
    /\ ~StopLossTriggered(position[1], Bar)
    /\ TakeProfitTriggered(position[1], Bar)
    /\ LET a == CloseTrade(Account, position[1].take_profit_price[1], Bar.timestamp,
                           "TakeProfit")
       IN  /\ SetAccount(a)
           /\ portfolio_history' =
                  Append(portfolio_history, EquityPoint(Bar.timestamp, a.equity))
    /\ i' = i + 1
    /\ last_event' = "take_profit"
    /\ queried' = FALSE
    /\ UNCHANGED <<environment, historical_data, status, runs, metrics_calls, report,
                   error_log>>

\* Mutant of BarEntry: the two `self.position is None` tests (lines 436 and
\* 460/482) are missing, so a signal opens over an open position.
BarEntry_Reopens ==
    /\ InLoop
    /\ sma_column
    /\ ~SkipBar(Bar)
    /\ position # None =>
         ~StopLossTriggered(position[1], Bar) /\ ~TakeProfitTriggered(position[1], Bar)
    /\ LET signal == macd_ema_strategy(Bar, None)
           out == IF signal \in {"LONG", "SHORT"}
                  THEN OpenAttempt(Account, signal, Bar)
                  ELSE [acct |-> Account, event |-> "hold"]
       IN  /\ SetAccount(out.acct)
           /\ last_event' = out.event
           /\ portfolio_history' =
                  Append(portfolio_history,
                         EquityPoint(Bar.timestamp, PortfolioValue(out.acct, Bar)))
    /\ queried' = TRUE
    /\ i' = i + 1
    /\ UNCHANGED <<environment, historical_data, status, runs, metrics_calls, report,
                   error_log>>

\* Mutant of BarEntry: a rejected open attempt raises instead of logging a
\* warning, which ends the call.
BarEntry_RejectionRaises ==
    /\ InLoop
    /\ sma_column
    /\ ~SkipBar(Bar)
    /\ position # None =>
         ~StopLossTriggered(position[1], Bar) /\ ~TakeProfitTriggered(position[1], Bar)
    /\ LET signal == EntrySignal(position, Bar)
           out == Entry(Account, signal, Bar)
           rejected == out.event \in {"insufficient_funds", "invalid_risk"}
       IN  /\ SetAccount(out.acct)
           /\ last_event' = out.event
           /\ status' = IF rejected THEN "raised" ELSE status
           /\ i' = IF rejected THEN i ELSE i + 1
           /\ portfolio_history' =
                  IF rejected THEN portfolio_history
                  ELSE Append(portfolio_history,
                              EquityPoint(Bar.timestamp, PortfolioValue(out.acct, Bar)))
    /\ queried' = (position = None)
    /\ UNCHANGED <<environment, historical_data, runs, metrics_calls, report, error_log>>

\* Mutant of BarEntry: the `self.position is None` test around the strategy
\* call (line 436) is missing, so the strategy is asked on every row that
\* reaches the entry logic.
BarEntry_AlwaysQueries ==
    /\ InLoop
    /\ sma_column
    /\ ~SkipBar(Bar)
    /\ position # None =>
         ~StopLossTriggered(position[1], Bar) /\ ~TakeProfitTriggered(position[1], Bar)
    /\ LET signal == macd_ema_strategy(Bar, position)
           out == Entry(Account, signal, Bar)
       IN  /\ SetAccount(out.acct)
           /\ last_event' = out.event
           /\ portfolio_history' =
                  Append(portfolio_history,
                         EquityPoint(Bar.timestamp, PortfolioValue(out.acct, Bar)))
    /\ queried' = TRUE
    /\ i' = i + 1
    /\ UNCHANGED <<environment, historical_data, status, runs, metrics_calls, report,
                   error_log>>

\* Lines 433-512: no trigger fired; the strategy is asked when flat, the
\* signal acted on, and the row's portfolio value recorded.
BarEntry ==
    /\ InLoop
    /\ sma_column
    /\ ~SkipBar(Bar)
    /\ position # None =>
         ~StopLossTriggered(position[1], Bar) /\ ~TakeProfitTriggered(position[1], Bar)
    /\ LET signal == EntrySignal(position, Bar)
           out == Entry(Account, signal, Bar)
       IN  /\ SetAccount(out.acct)
           /\ last_event' = out.event
           /\ portfolio_history' =
                  Append(portfolio_history,
                         EquityPoint(Bar.timestamp, PortfolioValue(out.acct, Bar)))
    /\ queried' = (position = None)
    /\ i' = i + 1
    /\ UNCHANGED <<environment, historical_data, status, runs, metrics_calls, report,
                   error_log>>

(***************************************************************************)
(* _calculate_metrics (lines 519-583).  Float values that are no fraction: *)
(* float('inf') and NaN.                                                   *)
(***************************************************************************)
Inf == [n |-> 1, d |-> 0]

NaN == [n |-> 0, d |-> 0]

\* The calendar day of a row: the rows of a 5-minute frame of this length
\* lie within one day, the rows of a 3-day frame are three days apart.
Day(timestamp) == IF interval = "5m" THEN 1 ELSE 3 * timestamp - 2

SetMin(S) == CHOOSE x \in S : \A y \in S : x <= y

SetMax(S) == CHOOSE x \in S : \A y \in S : y <= x

\* Line 543, .last(): the value of the latest point of day d; resample
\* orders the points by timestamp and keeps the order of equal timestamps.
LastOfDay(curve, d) ==
    LET ks == {k \in 1..Len(curve) : Day(curve[k].timestamp) = d}
        last == CHOOSE k \in ks : \A j \in ks :
                    \/ curve[j].timestamp < curve[k].timestamp
                    \/ curve[j].timestamp = curve[k].timestamp /\ j <= k
    IN  curve[last].equity

\* Line 543: resample('D').last().ffill(), one value per day from the first
\* day of the curve to the last; a day without points takes the value before it.
DailyEquity(curve) ==
    LET days == {Day(curve[k].timestamp) : k \in 1..Len(curve)}
        first == SetMin(days)
    IN  [j \in 1..(SetMax(days) - first + 1) |->
             LastOfDay(curve, SetMax({d \in days : d <= first + j - 1}))]

\* Line 544: pct_change().dropna() (the first day has no return and is dropped).
DailyReturns(daily) ==
    [j \in 1..(Len(daily) - 1) |->
         IF daily[j] = Zero THEN (IF daily[j + 1] = Zero THEN NaN ELSE Inf)
         ELSE RSub(RDiv(daily[j + 1], daily[j]), RI(1))]

RECURSIVE RSum(_)
RSum(seq) == IF seq = <<>> THEN Zero ELSE RAdd(seq[1], RSum(Tail(seq)))

\* daily_returns.mean()
Mean(returns) == RDiv(RSum(returns), RI(Len(returns)))

\* daily_returns.std() != 0: the sample standard deviation of two or more
\* values is 0 exactly when they are all equal.
StdNonZero(returns) == \E j, k \in 1..Len(returns) : returns[j] # returns[k]

\* Line 547: the number of trading days of a year.
TradingDaysPerYear == 252

\* Line 538: the curve's index is a DatetimeIndex when every point carries
\* the timestamp of a row (the rows' index is one after _prepare_data).
IsDatetimeIndex(curve) == \A k \in 1..Len(curve) : curve[k].timestamp \in Nat

\* Lines 538-549: None (logged as N/A) or the value.  mean / std * sqrt(252)
\* is not a fraction: the value is kept as the mean, the returns whose
\* deviation divides it and the 252.
SharpeRatio(curve) ==
    LET daily_returns == DailyReturns(DailyEquity(curve))
    IN  IF ~IsDatetimeIndex(curve)
        THEN None
        ELSE IF \E j \in 1..Len(daily_returns) : daily_returns[j] \in {Inf, NaN}
        THEN Some(NaN)
        ELSE IF Len(daily_returns) > 1 /\ StdNonZero(daily_returns)
             THEN Some([mean |-> Mean(daily_returns), std_of |-> daily_returns,
                        periods |-> TradingDaysPerYear])
             ELSE Some(Zero)

\* The peak of the whole curve, wherever it lies.
cummax_WholeCurve(curve, k) ==
    LET top == CHOOSE j \in 1..Len(curve) :
                   \A m \in 1..Len(curve) : RLe(curve[m].equity, curve[j].equity)
    IN  curve[top].equity

\* Line 532, equity.cummax(): the highest equity among the first k points.
RECURSIVE cummax(_, _)
cummax(curve, k) ==
    IF k = 1 THEN curve[1].equity
    ELSE RMax(cummax(curve, k - 1), curve[k].equity)

\* Line 533: the drawdown of point k, equity / peak - 1 (0 / 0 is NaN).
drawdown(curve, k) ==
    IF cummax(curve, k) = Zero THEN NaN
    ELSE RSub(RDiv(curve[k].equity, cummax(curve, k)), RI(1))

\* Line 534: drawdown.min() * 100; min() skips NaN and is NaN when nothing is left.
max_drawdown(curve) ==
    LET ks == {k \in 1..Len(curve) : drawdown(curve, k) # NaN}
        lowest == CHOOSE k \in ks : \A j \in ks :
                      RLe(drawdown(curve, k), drawdown(curve, j))
    IN  IF ks = {} THEN NaN ELSE RMul(drawdown(curve, lowest), RI(100))

\* Lines 519-583: the values the report logs.
MetricsReport ==
    LET final_equity == portfolio_history[Len(portfolio_history)].equity
        num_trades == Len(closed_trade_pnl)
        num_winning == winning_trades
        num_losing == losing_trades
        total_pnl == RSub(total_profit, total_loss)
    IN  [final_equity |-> final_equity,
         total_return_pct |->
             RMul(RSub(RDiv(final_equity, cfg.initial_capital), RI(1)), RI(100)),
         max_drawdown |-> max_drawdown(portfolio_history),
         sharpe_ratio |-> SharpeRatio(portfolio_history),
         num_trades |-> num_trades,
         num_winning |-> num_winning,
         num_losing |-> num_losing,
         win_rate |-> IF num_trades > 0
                      THEN RMul(R(num_winning, num_trades), RI(100)) ELSE Zero,
         loss_rate |-> IF num_trades > 0
                       THEN RMul(R(num_losing, num_trades), RI(100)) ELSE Zero,
         total_profit |-> total_profit,
         total_loss |-> total_loss,
         total_pnl |-> total_pnl,
         profit_factor |-> IF RLt(Zero, total_loss)
                           THEN RDiv(total_profit, total_loss) ELSE Inf,
         avg_win |-> IF num_winning > 0
                     THEN RDiv(total_profit, RI(num_winning)) ELSE Zero,
         avg_loss |-> IF num_losing > 0
                      THEN RDiv(total_loss, RI(num_losing)) ELSE Zero,
         avg_pnl_per_trade |-> IF num_trades > 0
                               THEN RDiv(total_pnl, RI(num_trades)) ELSE Zero]

\* Lines 515-516 and 519-522: the loop is over, the report is logged (none
\* when there is no equity curve) and the call returns.
RunBacktestCompleted ==
    /\ status = "running"
    /\ i > Len(Data)
    /\ metrics_calls' = metrics_calls + 1
    /\ report' = IF portfolio_history = <<>> THEN None ELSE Some(MetricsReport)
    /\ status' = "completed"
    /\ UNCHANGED <<environment, account, historical_data, i, runs, portfolio_history,
                   error_log, last_event, queried>>

Next ==
    \/ RunBacktestAborted
    \/ RunBacktestStarted
    \/ BarRaises
    \/ BarSkipped
    \/ BarStopLoss
    \/ BarTakeProfit
    \/ BarEntry
    \/ RunBacktestCompleted

Spec == Init /\ [][Next]_vars

(***************************************************************************)
(* 执行回测 and 计算绩效指标 (src/回测模块.py): the signal-driven backtest. *)
(* It buys with 10% of the cash on a '买入' signal, sells everything on a   *)
(* '卖出' signal, and sells everything at the take-profit or stop-loss      *)
(* price derived from the average cost.  Signals are written "buy",        *)
(* "sell" and "none" (no signal for the row), record types                 *)
(* "take_profit_sell" (止盈卖出), "stop_loss_sell" (止损卖出),               *)
(* "signal_sell" (信号卖出) and "buy" (买入).                               *)
(***************************************************************************)
MaxRows == 3

\* The engine of src/回测脚本.py as constructed and never run.
EngineIdle ==
    /\ cfg = ScenarioA
    /\ source = <<>>
    /\ sma_column = FALSE
    /\ interval = "5m"
    /\ historical_data = None
    /\ status = "idle"
    /\ i = 1
    /\ runs = 0
    /\ equity = cfg.initial_capital
    /\ position = None
    /\ trades = <<>>
    /\ portfolio_history = <<>>
    /\ closed_trade_pnl = <<>>
    /\ total_profit = Zero
    /\ total_loss = Zero
    /\ winning_trades = 0
    /\ losing_trades = 0
    /\ metrics_calls = 0
    /\ report = None
    /\ error_log = <<>>
    /\ last_event = "none"
    /\ queried = FALSE

engine == <<cfg, source, sma_column, interval, historical_data, status, i, runs, account,
            portfolio_history, metrics_calls, report, error_log, last_event, queried>>

\* The rows of k线数据: 收盘, 最高, 最低; no_close is a 收盘 that is NaN after
\* to_numeric (line 74), no_range a 最高 or 最低 that is NaN.
RowShape(kind) ==
    CASE kind = "Flat"    -> [close |-> RI(100), high |-> RI(101), low |-> RI(99),
                              no_close |-> FALSE, no_range |-> FALSE]
      [] kind = "Rise"    -> [close |-> RI(130), high |-> RI(140), low |-> RI(100),
                              no_close |-> FALSE, no_range |-> FALSE]
      [] kind = "Fall"    -> [close |-> RI(90), high |-> RI(100), low |-> RI(80),
                              no_close |-> FALSE, no_range |-> FALSE]
      [] kind = "Swing"   -> [close |-> RI(100), high |-> RI(140), low |-> RI(80),
                              no_close |-> FALSE, no_range |-> FALSE]
      [] kind = "NoRange" -> [close |-> RI(100), high |-> RI(100), low |-> RI(100),
                              no_close |-> FALSE, no_range |-> TRUE]
      [] kind = "NoClose" -> [close |-> RI(100), high |-> RI(101), low |-> RI(99),
                              no_close |-> TRUE, no_range |-> FALSE]

\* A row of the joined frame: its shape and the signal of its date.
RowCases ==
    {<<"Flat", "buy">>, <<"Flat", "sell">>, <<"Rise", "buy">>, <<"Rise", "sell">>,
     <<"Fall", "buy">>, <<"Swing", "none">>, <<"NoRange", "buy">>, <<"NoClose", "buy">>}

RowSeqs == UNION { [1..n -> RowCases] : n \in 0..MaxRows }

\* The frames 执行回测 is given; date is the row's place in the DatetimeIndex.
KlineFrames ==
    { [k \in 1..Len(g) |-> [date |-> k, kind |-> g[k][1], signal |-> g[k][2]]] :
          g \in RowSeqs }

\* 手续费率 and the spacing of the index, as the caller chose them.
FeeRates == {Zero, R(1, 4)}

RowHours == {12, 24}

\* Line 34: 初始资金 = 1000.  Line 35: 止盈比例 = 止损比例 = Decimal('0.10').
InitialFunds == 1000

TakeProfitRatio == R(1, 10)

StopLossRatio == R(1, 10)

\* The arguments of a call of 执行回测 that has not started.
SignalInit ==
    /\ EngineIdle
    /\ RetryIdle
    /\ MartingaleIdle
    /\ kline_data \in {None} \cup {Some(f) : f \in KlineFrames}
    /\ fee_rate \in FeeRates
    /\ row_hours \in RowHours
    /\ row_no = 1
    /\ cash = Zero
    /\ holdings = Zero
    /\ holding_cost = Zero
    /\ value_history = <<>>
    /\ trade_log = <<>>
    /\ last_total_value = Zero
    /\ backtest_result = None
    /\ indicators = None
    /\ signal_pc = "idle"

\* Line 75: rows whose 收盘 is NaN are dropped before the loop.
JoinedData == SelectSeq(kline_data[1], LAMBDA r : ~RowShape(r.kind).no_close)

\* The locals of one iteration: the account, the row's total value and the
\* flag 触发交易.
Wallet(c, h, cost, log, total, triggered) ==
    [cash |-> c, holdings |-> h, holding_cost |-> cost, trade_log |-> log,
     total |-> total, triggered |-> triggered]

\* Lines 107-127, 131-151 and 158-183: everything held is sold at `price`.
SellAll(w, date, type, price) ==
    LET amount == RMul(price, w.holdings)
        fee == RMul(amount, fee_rate)
        net == RSub(amount, fee)
        cash_after == RAdd(w.cash, net)
        pnl == IF type = "signal_sell" /\ ~RLt(Zero, w.holding_cost)
               THEN Zero ELSE RSub(net, w.holding_cost)
    IN  Wallet(cash_after, Zero, Zero,
               Append(w.trade_log,
                      [date |-> date, type |-> type, price |-> price,
                       quantity |-> w.holdings, fee |-> fee, cash |-> cash_after,
                       holdings |-> Zero, total |-> cash_after, pnl |-> Some(pnl)]),
               cash_after, TRUE)

\* Lines 98-100: the levels derived from the average cost.
AverageCost(w) == RDiv(w.holding_cost, w.holdings)

TakeProfitLevel(w) == RMul(AverageCost(w), RAdd(RI(1), TakeProfitRatio))

StopLossLevel(w) == RMul(AverageCost(w), RSub(RI(1), StopLossRatio))

\* Line 97: the levels are checked with holdings and a recorded cost.
HasHoldings(w) == RLt(Zero, w.holdings) /\ RLt(Zero, w.holding_cost)

\* Lines 96-151: the take-profit is tested first, on the row's high, then the
\* stop-loss on its low.
CheckLevels(w, row) ==
    LET shape == RowShape(row.kind)
    IN  IF ~HasHoldings(w) THEN w
        ELSE IF RLe(TakeProfitLevel(w), shape.high)
             THEN SellAll(w, row.date, "take_profit_sell", TakeProfitLevel(w))
        ELSE IF ~w.triggered /\ RLe(shape.low, StopLossLevel(w))
             THEN SellAll(w, row.date, "stop_loss_sell", StopLossLevel(w))
        ELSE w

\* Line 154.
SignalSellAllowed(w, signal) ==
    ~w.triggered /\ signal = "sell" /\ RLt(Zero, w.holdings)

\* Lines 153-183.
SignalSell(w, row) ==
    IF SignalSellAllowed(w, row.signal)
    THEN SellAll(w, row.date, "signal_sell", RowShape(row.kind).close)
    ELSE w

\* The signal purchase without the test of 触发交易.
SignalBuyAllowed_IgnoresTrigger(w, signal) ==
    signal = "buy" /\ RLt(RI(1), w.cash)

\* Line 186.
SignalBuyAllowed(w, signal) ==
    ~w.triggered /\ signal = "buy" /\ RLt(RI(1), w.cash)

\* Lines 185-234: 10% of the cash buys at the close, fee included.  The purchase
\* is left out when that tenth is below 0.1 (line 194), when the price or
\* 1 + fee is not positive (line 200) or when the cash does not cover it
\* (line 209).
SignalBuy(w, row) ==
    LET price == RowShape(row.kind).close
        available == RMul(w.cash, R(1, 10))
        quantity == RDiv(available, RMul(price, RAdd(RI(1), fee_rate)))
        cost == RMul(quantity, price)
        fee == RMul(cost, fee_rate)
        spent == RAdd(cost, fee)
        cash_after == RSub(w.cash, spent)
        holdings_after == RAdd(w.holdings, quantity)
        total_after == RAdd(cash_after, RMul(holdings_after, price))
    IN  IF ~SignalBuyAllowed(w, row.signal) THEN w
        ELSE IF RLt(available, R(1, 10)) THEN w
        ELSE IF ~(RLt(Zero, price) /\ RLt(Zero, RAdd(RI(1), fee_rate))) THEN w
        ELSE IF ~RLe(spent, w.cash) THEN w
        ELSE Wallet(cash_after, holdings_after, RAdd(w.holding_cost, spent),
                    Append(w.trade_log,
                           [date |-> row.date, type |-> "buy", price |-> price,
                            quantity |-> quantity, fee |-> fee, cash |-> cash_after,
                            holdings |-> holdings_after, total |-> total_after,
                            pnl |-> None]),
                    total_after, TRUE)

\* Lines 46-57: without data the call prints an error and returns None.
SignalBacktestAborted ==
    /\ signal_pc = "idle"
    /\ kline_data = None
    /\ backtest_result' = None
    /\ signal_pc' = "returned"
    /\ UNCHANGED <<engine, retry_call, martingale, kline_data, fee_rate, row_hours, row_no,
                   cash, holdings, holding_cost, value_history, trade_log,
                   last_total_value, indicators>>

\* Lines 59-80: the account of the call.
SignalBacktestStarted ==
    /\ signal_pc = "idle"
    /\ kline_data # None
    /\ cash' = RI(InitialFunds)
    /\ holdings' = Zero
    /\ holding_cost' = Zero
    /\ value_history' = <<>>
    /\ trade_log' = <<>>
    /\ last_total_value' = RI(InitialFunds)
    /\ row_no' = 1
    /\ signal_pc' = "looping"
    /\ UNCHANGED <<engine, retry_call, martingale, kline_data, fee_rate, row_hours,
                   backtest_result, indicators>>

SignalRow == JoinedData[row_no]

SignalLooping == signal_pc = "looping" /\ row_no <= Len(JoinedData)

\* Lines 83-85: a row without a high or a low keeps the last total value.
SignalRowSkipped ==
    /\ SignalLooping
    /\ RowShape(SignalRow.kind).no_range
    /\ value_history' =
           Append(value_history, [date |-> SignalRow.date, value |-> last_total_value])
    /\ row_no' = row_no + 1
    /\ UNCHANGED <<engine, retry_call, martingale, kline_data, fee_rate, row_hours, cash,
                   holdings, holding_cost, trade_log, last_total_value, backtest_result,
                   indicators, signal_pc>>

\* Lines 87-238: one row: the levels, then the signal sale, then the signal
\* purchase, then the row's total value.
HandleRow(row) ==
    LET start == Wallet(cash, holdings, holding_cost, trade_log,
                        RAdd(cash, RMul(holdings, RowShape(row.kind).close)), FALSE)
    IN  SignalBuy(SignalSell(CheckLevels(start, row), row), row)

SignalRowHandled ==
    /\ SignalLooping
    /\ ~RowShape(SignalRow.kind).no_range
    /\ LET w == HandleRow(SignalRow)
       IN  /\ cash' = w.cash
           /\ holdings' = w.holdings
           /\ holding_cost' = w.holding_cost
           /\ trade_log' = w.trade_log
           /\ value_history' =
                  Append(value_history, [date |-> SignalRow.date, value |-> w.total])
           /\ last_total_value' = w.total
    /\ row_no' = row_no + 1
    /\ UNCHANGED <<engine, retry_call, martingale, kline_data, fee_rate, row_hours,
                   backtest_result, indicators, signal_pc>>

\* Lines 240-268: the result; the dates of dropped rows have no value (dropna).
SignalBacktestReturned ==
    /\ signal_pc = "looping"
    /\ row_no > Len(JoinedData)
    /\ LET final_value == IF value_history = <<>> THEN RI(InitialFunds)
                          ELSE value_history[Len(value_history)].value
       IN  backtest_result' =
               Some([initial_funds |-> RI(InitialFunds),
                     final_value |-> final_value,
                     total_return |-> RSub(RDiv(final_value, RI(InitialFunds)), RI(1)),
                     value_history |-> value_history,
                     trade_log |-> trade_log])
    /\ signal_pc' = "returned"
    /\ UNCHANGED <<engine, retry_call, martingale, kline_data, fee_rate, row_hours, row_no,
                   cash, holdings, holding_cost, value_history, trade_log,
                   last_total_value, indicators>>

(***************************************************************************)
(* 计算绩效指标 (lines 270-347).  A value the report gives as "N/A (...)"   *)
(* is NotApplicable(why); x ** y with a fractional y is kept as the pair   *)
(* of its base and exponent.                                               *)
(***************************************************************************)
\* Line 10.
ANNUAL_TRADING_DAYS == 252

NotApplicable(why) == [not_applicable |-> why]

\* Line 298: (end_date - start_date).days, whole days of the elapsed time.
ElapsedDays(history) ==
    ((history[Len(history)].date - history[1].date) * row_hours) \div 24

\* The number of rows taken for the number of days.
AnnualFactor_CountsRows(history) ==
    IF Len(history) > 1 THEN R(ANNUAL_TRADING_DAYS, Len(history) - 1) ELSE Zero

\* Lines 293-303: 年化因子.
AnnualFactor(history) ==
    IF Len(history) > 1
    THEN IF ElapsedDays(history) > 0
         THEN R(ANNUAL_TRADING_DAYS, ElapsedDays(history)) ELSE Zero
    ELSE Zero

\* Lines 306-310: 年化收益率 = (1 + 总收益率) ** 年化因子 - 1.
AnnualizedReturn(total_return, factor) ==
    IF RLt(Zero, factor)
    THEN [base |-> RAdd(RI(1), total_return), exponent |-> factor, minus |-> RI(1)]
    ELSE NotApplicable("duration")

\* Line 314: cummax() of the values.
RECURSIVE HistoryPeak(_, _)
HistoryPeak(history, k) ==
    IF k = 1 THEN history[1].value
    ELSE RMax(HistoryPeak(history, k - 1), history[k].value)

\* Lines 313-319: 最大回撤, the lowest (value - peak) / peak.
HistoryMaxDrawdown(history) ==
    LET Fall(k) == RDiv(RSub(history[k].value, HistoryPeak(history, k)),
                        HistoryPeak(history, k))
        lowest == CHOOSE k \in 1..Len(history) :
                      \A j \in 1..Len(history) : RLe(Fall(k), Fall(j))
    IN  IF Len(history) > 1 THEN Fall(lowest) ELSE NotApplicable("data")

\* Line 324: pct_change().dropna().
PeriodReturns(history) ==
    [k \in 1..(Len(history) - 1) |->
         RSub(RDiv(history[k + 1].value, history[k].value), RI(1))]

\* Lines 322-342: 年化波动率 = std * sqrt(252) and 夏普比率 = 年化收益率 / 年化波动率
\* are kept as the values they are computed from; the volatility exceeds 1e-9
\* when the returns are not all equal.
Volatility(history, factor) ==
    IF RLt(Zero, factor) /\ Len(history) > 1
    THEN IF Len(PeriodReturns(history)) > 1
         THEN [std_of |-> PeriodReturns(history), periods |-> ANNUAL_TRADING_DAYS]
         ELSE NotApplicable("returns")
    ELSE NotApplicable("duration or data")

SharpeIndicator(history, factor, annualized) ==
    IF RLt(Zero, factor) /\ Len(history) > 1
    THEN IF Len(PeriodReturns(history)) > 1
         THEN IF StdNonZero(PeriodReturns(history))
              THEN [return |-> annualized, volatility |-> Volatility(history, factor)]
              ELSE NotApplicable("volatility")
         ELSE NotApplicable("returns")
    ELSE NotApplicable("duration or data")

\* Lines 277-347: the dict 指标; {'错误': '结果不足'} is [error |-> TRUE].
ComputeIndicators(result) ==
    IF result = None THEN [error |-> TRUE]
    ELSE IF result[1].value_history = <<>> THEN [error |-> TRUE]
    ELSE LET history == result[1].value_history
             factor == AnnualFactor(history)
             annualized == AnnualizedReturn(result[1].total_return, factor)
         IN  [error |-> FALSE,
              initial_funds |-> result[1].initial_funds,
              final_value |-> result[1].final_value,
              total_return |-> result[1].total_return,
              total_trades |-> Len(result[1].trade_log),
              duration_days |-> IF Len(history) > 1 THEN ElapsedDays(history) ELSE 0,
              annualized_return |-> annualized,
              max_drawdown |-> HistoryMaxDrawdown(history),
              volatility |-> Volatility(history, factor),
              sharpe_ratio |-> SharpeIndicator(history, factor, annualized)]

IndicatorsComputed ==
    /\ signal_pc = "returned"
    /\ indicators' = Some(ComputeIndicators(backtest_result))
    /\ signal_pc' = "measured"
    /\ UNCHANGED <<engine, retry_call, martingale, kline_data, fee_rate, row_hours, row_no,
                   cash, holdings, holding_cost, value_history, trade_log,
                   last_total_value, backtest_result>>

SignalNext ==
    \/ SignalBacktestAborted
    \/ SignalBacktestStarted
    \/ SignalRowSkipped
    \/ SignalRowHandled
    \/ SignalBacktestReturned
    \/ IndicatorsComputed

SignalSpec == SignalInit /\ [][SignalNext]_vars

(***************************************************************************)
(* _retry_on_api_error and a function it decorates, 获取最新价格            *)
(* (src/数据获取模块.py).  An answer of the exchange is what a request      *)
(* raises, or nothing; an outcome of a function call is what it raised or  *)
(* returned.                                                               *)
(***************************************************************************)
\* Lines 81 and 83.
RETRYABLE_ERROR_CODES == {-1003, -1015}

MAX_RETRIES == 3

Answer(exception, code) == [exception |-> exception, code |-> code]

\* A ticker, a network error, rate-limit errors, an invalid symbol (-1121) and
\* an error of another kind.
Answers ==
    {Answer("none", 0), Answer("BinanceRequestException", 0),
     Answer("BinanceAPIException", -1003), Answer("BinanceAPIException", -1015),
     Answer("BinanceAPIException", -1121), Answer("Exception", 0)}

\* A call of the decorated 获取最新价格 that has not started.
RetryInit ==
    /\ EngineIdle
    /\ SignalBacktestIdle
    /\ MartingaleIdle
    /\ api_answers \in [1..(MAX_RETRIES + 1) -> Answers]
    /\ client_ready \in BOOLEAN
    /\ symbol \in {None, Some("BTCUSDT")}
    /\ retries = 0
    /\ attempts = 0
    /\ requests = 0
    /\ call_result = None
    /\ retry_pc = "idle"

Outcome(raised, value, requested) ==
    [raised |-> raised, value |-> value, requested |-> requested]

\* A function that lets what the request raises reach its caller.
GetLatestPrice_Propagates(answer) ==
    IF ~client_ready THEN Outcome(Answer("none", 0), None, FALSE)
    ELSE IF answer.exception = "none"
         THEN Outcome(answer, Some(IF symbol # None THEN "ticker" ELSE "tickers"), TRUE)
    ELSE Outcome(answer, None, TRUE)

\* Lines 398-424, 获取最新价格: without a client it returns None; it sends one
\* request and returns the ticker (all tickers without a symbol); what the
\* request raises is caught inside the function (lines 420-424), logged, and
\* None is returned.
GetLatestPrice(answer) ==
    IF ~client_ready THEN Outcome(Answer("none", 0), None, FALSE)
    ELSE IF answer.exception = "none"
         THEN Outcome(answer, Some(IF symbol # None THEN "ticker" ELSE "tickers"), TRUE)
    ELSE Outcome(Answer("none", 0), None, TRUE)

\* Lines 92-121: what wrapper does with the outcome of func: `again` when the
\* loop goes on after the sleep, else the value it returns.
Handle(outcome, retried) ==
    LET retryable ==
            \/ outcome.raised.exception = "BinanceRequestException"
            \/ /\ outcome.raised.exception = "BinanceAPIException"
               /\ outcome.raised.code \in RETRYABLE_ERROR_CODES
    IN  IF outcome.raised.exception = "none"
        THEN [again |-> FALSE, retries |-> retried, value |-> outcome.value]
        ELSE IF retryable
             THEN [again |-> retried + 1 <= MAX_RETRIES, retries |-> retried + 1,
                   value |-> None]
        ELSE [again |-> FALSE, retries |-> retried, value |-> None]

\* Line 90: wrapper is called.
RetryCallStarted ==
    /\ retry_pc = "idle"
    /\ retries' = 0
    /\ retry_pc' = "calling"
    /\ UNCHANGED <<engine, signal_backtest, martingale, api_answers, client_ready, symbol,
                   attempts, requests, call_result>>

\* Lines 91-121: one iteration of `while retries <= MAX_RETRIES`: func is
\* called, and wrapper returns or sleeps RETRY_DELAY and goes on.
RetryAttempt ==
    /\ retry_pc = "calling"
    /\ retries <= MAX_RETRIES
    /\ LET outcome == GetLatestPrice(api_answers[requests + 1])
           handled == Handle(outcome, retries)
       IN  /\ attempts' = attempts + 1
           /\ requests' = IF outcome.requested THEN requests + 1 ELSE requests
           /\ retries' = handled.retries
           /\ retry_pc' = IF handled.again THEN "calling" ELSE "returned"
           /\ call_result' = handled.value
    /\ UNCHANGED <<engine, signal_backtest, martingale, api_answers, client_ready, symbol>>

RetryNext == RetryCallStarted \/ RetryAttempt

RetrySpec == RetryInit /\ [][RetryNext]_vars

(***************************************************************************)
(* 马丁格尔加仓策略 (src/策略模块.py): a function of the analysis data, the *)
(* position state and the parameters.  The K-line bias 看涨 / 看跌 is        *)
(* written "bullish" / "bearish".                                          *)
(***************************************************************************)
\* Lines 251-259: 默认策略参数 (initial_stop_loss_pct is not used).
DefaultParams ==
    [base_order_value |-> RI(10), level_distance_pct |-> RI(1),
     size_multiplier |-> RI(2), max_levels |-> RI(5),
     take_profit_pct_from_avg |-> R(3, 2), overall_stop_loss_pct_from_avg |-> RI(5)]

\* 策略参数_输入: nothing, a lower level limit, a tight stop, a limit of 0.
ParamInputs ==
    {None, Some([max_levels |-> RI(2)]),
     Some([max_levels |-> RI(2), overall_stop_loss_pct_from_avg |-> R(1, 2)]),
     Some([max_levels |-> RI(0)])}

\* 分析数据: the current price (None when missing) and the K-line bias.
AnalysisInputs ==
    [current_price : {None, Some(Zero), Some(RI(94)), Some(RI(99)), Some(RI(100)),
                      Some(RI(102)), Some(RI(105))},
     bias : {"bullish", "bearish", "unknown"}]

\* 持仓状态: no position, positions of both directions at level 1 or 2, and a
\* state without a size.
PositionStates ==
    {None}
    \cup {Some(p) : p \in [direction : {"LONG", "SHORT"}, avg_price : {RI(100)},
                           total_size : {R(3, 10), R(1, 3)},
                           last_entry_price : {RI(90), RI(100), RI(110)},
                           level : {1, 2}]}
    \cup {Some([direction |-> "LONG", avg_price |-> RI(100), total_size |-> Zero,
                last_entry_price |-> RI(100), level |-> 1])}

MartingaleInit ==
    /\ EngineIdle
    /\ SignalBacktestIdle
    /\ RetryIdle
    /\ analysis_data \in AnalysisInputs
    /\ position_state \in PositionStates
    /\ strategy_params \in ParamInputs
    /\ signal_output = None
    /\ position_state_after = position_state

\* Lines 263-265: the defaults, overridden by the input.
MergedParams(input) ==
    IF input = None THEN DefaultParams
    ELSE [k \in DOMAIN DefaultParams |->
              IF k \in DOMAIN input[1] THEN input[1][k] ELSE DefaultParams[k]]

\* Lines 193-218, _验证策略参数.
ValidParams(params) ==
    /\ \A k \in {"level_distance_pct", "size_multiplier", "take_profit_pct_from_avg",
                 "overall_stop_loss_pct_from_avg"} : RLt(Zero, params[k])
    /\ RLe(RI(1), params.max_levels)
    /\ RLt(Zero, params.base_order_value)

\* round(x, ndigits) with scale = 10 ^ ndigits: the nearest multiple of
\* 1 / scale, the even one of two equally near.
Round(x, scale) ==
    LET whole == (x.n * scale) \div x.d
        rest == (x.n * scale) % x.d
        up == 2 * rest > x.d \/ (2 * rest = x.d /\ whole % 2 = 1)
    IN  R(IF up THEN whole + 1 ELSE whole, scale)

RoundPrice(price) == IF price = None THEN None ELSE Some(Round(price[1], 10000))

\* Lines 175-191, _计算信号输出: the size is rounded to 6 decimals, the prices to 4.
SignalOutput(signal, size, reason, entry_price, stop_loss, take_profit, next_level) ==
    [signal |-> signal, size |-> IF RLt(Zero, size) THEN Round(size, 1000000) ELSE Zero,
     reason |-> reason, entry_price |-> RoundPrice(entry_price),
     stop_loss |-> RoundPrice(stop_loss), take_profit |-> RoundPrice(take_profit),
     next_level |-> next_level]

Percent(pct) == RDiv(pct, RI(100))

\* Lines 60-92, _处理无仓位情况: the first order follows the K-line bias.
NoPositionSignal(bias, params, current_price) ==
    LET size == RDiv(params.base_order_value, current_price)
        take_profit_pct == Percent(params.take_profit_pct_from_avg)
    IN  IF bias = "bullish"
        THEN SignalOutput("LONG", size, "initial long", Some(current_price), None,
                          Some(RMul(current_price, RAdd(RI(1), take_profit_pct))), Some(1))
        ELSE IF bias = "bearish"
        THEN SignalOutput("SHORT", size, "initial short", Some(current_price), None,
                          Some(RMul(current_price, RSub(RI(1), take_profit_pct))), Some(1))
        ELSE SignalOutput("HOLD", Zero, "no initial signal", None, None, None, None)

RECURSIVE Power(_, _)
Power(x, k) == IF k = 0 THEN RI(1) ELSE RMul(x, Power(x, k - 1))

\* An add-on at every level up to the limit.
AddOnAllowed_UpToLimit(level, max_levels) == RLe(RI(level), max_levels)

\* Line 151.
AddOnAllowed(level, max_levels) == RLt(RI(level), max_levels)

\* Lines 94-173, _处理有仓位情况: the overall stop-loss, then the take-profit,
\* then the add-on, else HOLD at the current level.
InPositionSignal(p, params, current_price) ==
    LET long == p.direction = "LONG"
        overall_stop_loss_price ==
            RMul(p.avg_price,
                 IF long THEN RSub(RI(1), Percent(params.overall_stop_loss_pct_from_avg))
                 ELSE RAdd(RI(1), Percent(params.overall_stop_loss_pct_from_avg)))
        target_tp_price ==
            RMul(p.avg_price,
                 IF long THEN RAdd(RI(1), Percent(params.take_profit_pct_from_avg))
                 ELSE RSub(RI(1), Percent(params.take_profit_pct_from_avg)))
        add_price ==
            RMul(p.last_entry_price,
                 IF long THEN RSub(RI(1), Percent(params.level_distance_pct))
                 ELSE RAdd(RI(1), Percent(params.level_distance_pct)))
        should_add == IF long THEN RLe(current_price, add_price)
                      ELSE RLe(add_price, current_price)
        add_value == RMul(params.base_order_value, Power(params.size_multiplier, p.level))
    IN  IF p.avg_price = Zero \/ p.total_size = Zero
        THEN SignalOutput("HOLD", Zero, "position state error", None, None, None,
                          Some(p.level))
        ELSE IF IF long THEN RLe(current_price, overall_stop_loss_price)
                ELSE RLe(overall_stop_loss_price, current_price)
        THEN SignalOutput("CLOSE", p.total_size, "overall stop-loss", None,
                          Some(overall_stop_loss_price), None, None)
        ELSE IF IF long THEN RLe(target_tp_price, current_price)
                ELSE RLe(current_price, target_tp_price)
        THEN SignalOutput("CLOSE", p.total_size, "take-profit", None,
                          Some(overall_stop_loss_price), Some(target_tp_price), None)
        ELSE IF AddOnAllowed(p.level, params.max_levels) /\ should_add
        THEN SignalOutput(IF long THEN "ADD_LONG" ELSE "ADD_SHORT",
                          RDiv(add_value, current_price), "add-on", Some(current_price),
                          Some(overall_stop_loss_price), Some(target_tp_price),
                          Some(p.level + 1))
        ELSE SignalOutput("HOLD", Zero, "hold", None, Some(overall_stop_loss_price),
                          Some(target_tp_price), Some(p.level))

\* Lines 222-291.
MartingaleStrategy(analysis, position_input, params_input) ==
    LET params == MergedParams(params_input)
        current_price == analysis.current_price
    IN  IF ~ValidParams(params)
        THEN SignalOutput("HOLD", Zero, "invalid parameters", None, None, None, None)
        ELSE IF current_price = None
        THEN SignalOutput("HOLD", Zero, "no valid price", None, None, None, None)
        ELSE IF ~RLt(Zero, current_price[1])
        THEN SignalOutput("HOLD", Zero, "no valid price", None, None, None, None)
        ELSE IF position_input = None
        THEN NoPositionSignal(analysis.bias, params, current_price[1])
        ELSE InPositionSignal(position_input[1], params, current_price[1])

\* The call with no position: the caller's 持仓状态 is None before and after.
MartingaleCalledFlat ==
    /\ signal_output = None
    /\ position_state = None
    /\ signal_output' = Some(MartingaleStrategy(analysis_data, position_state, strategy_params))
    /\ position_state_after' = position_state
    /\ UNCHANGED <<engine, signal_backtest, retry_call, analysis_data, position_state,
                   strategy_params>>

\* The call with a position: the function reads 持仓状态 with .get and assigns
\* to no key of it.
MartingaleCalledInPosition ==
    /\ signal_output = None
    /\ position_state # None
    /\ signal_output' = Some(MartingaleStrategy(analysis_data, position_state, strategy_params))
    /\ position_state_after' = position_state
    /\ UNCHANGED <<engine, signal_backtest, retry_call, analysis_data, position_state,
                   strategy_params>>

MartingaleNext == MartingaleCalledFlat \/ MartingaleCalledInPosition

MartingaleSpec == MartingaleInit /\ [][MartingaleNext]_vars

(***************************************************************************)
(* Reading the ledger.                                                     *)
(***************************************************************************)
IsOpen(r) == r.action \in {"OPEN_LONG", "OPEN_SHORT"}

IsClose(r) == r.action \in {"CLOSE_LONG", "CLOSE_SHORT"}

LastTrade == trades[Len(trades)]

\* The loop is about to run the stop-loss / take-profit / entry logic on Bar.
AtValidBar == InLoop /\ sma_column /\ ~SkipBar(Bar)

\* The loop is about to act on a LONG or SHORT signal with no position open.
AtSignal == AtValidBar /\ position = None /\ macd_ema_strategy(Bar, None) \in {"LONG", "SHORT"}

\* The row the loop handled last.
PrevBar == Data[i - 1]

(***************************************************************************)
(* C1: for every round trip (an open record followed by the close of that  *)
(* position) the equity right after the close equals the equity right      *)
(* before the open plus raw_pnl minus open_commission minus                *)
(* close_commission: the open commission is charged exactly once.          *)
(***************************************************************************)
C1_OpenCommissionChargedOnce ==
    \A k \in 2..Len(trades) :
        (IsClose(trades[k]) /\ IsOpen(trades[k - 1])) =>
            LET o == trades[k - 1]
                c == trades[k]
                equity_before_open == RAdd(o.equity_after, o.commission)
                raw_pnl == IF c.action = "CLOSE_LONG"
                           THEN RMul(RSub(c.price, o.price), c.size)
                           ELSE RMul(RSub(o.price, c.price), c.size)
                close_commission == RMul(RMul(c.size, c.price), cfg.commission_rate)
            IN  c.equity_after =
                    RSub(RSub(RAdd(equity_before_open, raw_pnl), o.commission),
                         close_commission)

(***************************************************************************)
(* C2: at most one position is open at any time: in the ledger every open  *)
(* record but the last is directly followed by a close record, a position  *)
(* exists exactly when the last record is an open, and it is then the      *)
(* position that record opened (it was never overwritten).                 *)
(***************************************************************************)
C2_SinglePosition ==
    /\ \A k \in 1..(Len(trades) - 1) : IsOpen(trades[k]) => IsClose(trades[k + 1])
    /\ position = None => (trades = <<>> \/ IsClose(LastTrade))
    /\ position # None =>
         /\ trades # <<>>
         /\ IsOpen(LastTrade)
         /\ position[1].entry_timestamp = LastTrade.timestamp
         /\ position[1].entry_price = LastTrade.price
         /\ position[1].size = LastTrade.size

\* A row carrying an entry signal was handled while a position was open.
C2_Witness ==
    /\ status = "running"
    /\ i > 1
    /\ position # None
    /\ last_event = "holding"
    /\ macd_ema_strategy(PrevBar, None) \in {"LONG", "SHORT"}

(***************************************************************************)
(* C3: when the high/low range of a row crosses both the stop-loss and the *)
(* take-profit level of the open position, the step that handles the row   *)
(* appends exactly one record, a close at the stop price with reason       *)
(* StopLoss, and leaves the engine flat.                                   *)
(***************************************************************************)
CrossesStop(pos, bar) ==
    IF pos.direction = "LONG"
    THEN RLe(Low(bar), pos.stop_loss_price)
    ELSE RLe(pos.stop_loss_price, High(bar))

CrossesTarget(pos, bar) ==
    /\ pos.take_profit_price # None
    /\ IF pos.direction = "LONG"
       THEN RLe(pos.take_profit_price[1], High(bar))
       ELSE RLe(Low(bar), pos.take_profit_price[1])

C3_Step ==
    (/\ AtValidBar
     /\ position # None
     /\ CrossesStop(position[1], Bar)
     /\ CrossesTarget(position[1], Bar))
    => /\ Len(trades') = Len(trades) + 1
       /\ SubSeq(trades', 1, Len(trades)) = trades
       /\ IsClose(trades'[Len(trades')])
       /\ trades'[Len(trades')].reason = "StopLoss"
       /\ trades'[Len(trades')].price = position[1].stop_loss_price
       /\ trades'[Len(trades')].timestamp = Bar.timestamp
       /\ position' = None

DataAvailable == historical_data # None /\ historical_data[1] # <<>>

C4_RunCompletes ==
    (DataAvailable /\ status \notin {"idle", "running"})
    => /\ status = "completed"
       /\ i = Len(Data) + 1
       /\ metrics_calls = 1

(***************************************************************************)
(* C5: a step that appends a close record (a stop-loss or take-profit      *)
(* close) appends nothing else, does not call the strategy and leaves the  *)
(* engine flat: no re-entry on the row of a close.                         *)
(***************************************************************************)
C5_Step ==
    (Len(trades') > Len(trades) /\ IsClose(trades'[Len(trades) + 1]))
    => /\ Len(trades') = Len(trades) + 1
       /\ ~queried'
       /\ position' = None
       /\ i' = i + 1

C5_NoReentryOnCloseBar == [][C5_Step]_vars

\* A position was just closed on a row that carries an entry signal.
C5_Witness ==
    /\ status = "running"
    /\ i > 1
    /\ last_event \in {"stop_loss", "take_profit"}
    /\ macd_ema_strategy(PrevBar, None) \in {"LONG", "SHORT"}

(***************************************************************************)
(* C6: an open attempt with equity < margin + open_commission changes      *)
(* nothing: the position stays none, no record is appended and the equity  *)
(* is unchanged.                                                           *)
(***************************************************************************)
C6_Short ==
    LET signal == macd_ema_strategy(Bar, None)
        entry == Close(Bar)
        stop == StopLossPrice(signal, entry)
        size == RDiv(RMul(equity, cfg.risk_per_trade), RAbs(RSub(entry, stop)))
        margin == RDiv(RMul(size, entry), cfg.leverage)
        open_commission == RMul(RMul(size, entry), cfg.commission_rate)
    IN  /\ RLt(Zero, RAbs(RSub(entry, stop)))
        /\ RLt(Zero, size)
        /\ RLt(equity, RAdd(margin, open_commission))

C6_Step ==
    (AtSignal /\ C6_Short)
    => /\ position' = None
       /\ trades' = trades
       /\ equity' = equity

C6_InsufficientFundsSkips == [][C6_Step]_vars

C6_Witness ==
    /\ last_event = "insufficient_funds"
    /\ position = None
    /\ trades = <<>>

(***************************************************************************)
(* C7: a rejected open attempt (insufficient funds or a risk distance that *)
(* is not positive) never ends the run: the step records the row's         *)
(* EquityPoint, appends no record and stays in the loop, and the step      *)
(* after a rejected row is the next row or the completion of the run.      *)
(***************************************************************************)
C7_Rejected ==
    LET signal == macd_ema_strategy(Bar, None)
        entry == Close(Bar)
        stop == StopLossPrice(signal, entry)
    IN  \/ RLe(RAbs(RSub(entry, stop)), Zero)
        \/ C6_Short

C7_Step ==
    /\ (AtSignal /\ C7_Rejected)
       => /\ status' = "running"
          /\ i' = i + 1
          /\ portfolio_history' =
                 Append(portfolio_history, EquityPoint(Bar.timestamp, equity))
          /\ trades' = trades
    /\ (status = "running" /\ last_event \in {"insufficient_funds", "invalid_risk"})
       => /\ status' \in {"running", "completed"}
          /\ status' = "running" => i' = i + 1
          /\ status' = "completed" => i > Len(Data)

C7_RejectionNeverAborts == [][C7_Step]_vars

\* A run that completed after its first row's signal was rejected and a
\* later row was handled.
C7_Witness ==
    /\ status = "completed"
    /\ runs = 1
    /\ Len(Data) = 2
    /\ macd_ema_strategy(Data[1], None) \in {"LONG", "SHORT"}
    /\ ~SkipBar(Data[1])
    /\ cfg \in {NoLeverage, ZeroStop}
    /\ trades = <<>>
    /\ Len(portfolio_history) = 2

(***************************************************************************)
(* C8: a LONG or SHORT signal whose risk per contract |entry - stop| is    *)
(* not positive opens no trade: position, equity and ledger are unchanged. *)
(***************************************************************************)
C8_Step ==
    (/\ AtSignal
     /\ LET signal == macd_ema_strategy(Bar, None)
            entry == Close(Bar)
            stop == IF signal = "LONG"
                    THEN RMul(entry, RSub(RI(1), cfg.stop_loss_percentage))
                    ELSE RMul(entry, RAdd(RI(1), cfg.stop_loss_percentage))
        IN  RLe(RAbs(RSub(entry, stop)), Zero))
    => /\ position' = None
       /\ equity' = equity
       /\ trades' = trades

C8_InvalidRiskOpensNothing == [][C8_Step]_vars

C8_Witness ==
    /\ last_event = "invalid_risk"
    /\ position = None
    /\ trades = <<>>

(***************************************************************************)
(* C9: every open record has size > 0 and a margin equal to                *)
(* size * entry_price / leverage, and so has the open position.            *)
(***************************************************************************)
C9_SizeAndMargin ==
    /\ \A k \in 1..Len(trades) :
         IsOpen(trades[k]) =>
             /\ RLt(Zero, trades[k].size)
             /\ trades[k].margin_required =
                    RDiv(RMul(trades[k].size, trades[k].price), cfg.leverage)
    /\ position # None =>
         /\ RLt(Zero, position[1].size)
         /\ position[1].margin_used =
                RDiv(RMul(position[1].size, position[1].entry_price), cfg.leverage)

C9_Witness ==
    /\ position # None
    /\ trades # <<>>
    /\ IsOpen(LastTrade)
    /\ cfg.leverage # RI(1)

(***************************************************************************)
(* C10: when the bar source yields no data (None, an empty frame, or a     *)
(* frame that is empty after cleaning) the call aborts before the loop:    *)
(* the failure is logged, no metrics are calculated and no report is       *)
(* produced, no row is handled, and on a new engine the ledger and the     *)
(* equity curve are empty and the equity is the initial capital.  The      *)
(* aborting step changes nothing of the account or the equity curve.       *)
(***************************************************************************)
NoData == historical_data = None \/ historical_data[1] = <<>>

C10_Aborted ==
    (runs > 0 /\ NoData)
    => /\ status = "aborted"
       /\ \E k \in 1..Len(error_log) : error_log[k] = "data preparation failed"
       /\ report = None
       /\ metrics_calls = 0
       /\ last_event = "none"
       /\ runs = 1 =>
            /\ trades = <<>>
            /\ portfolio_history = <<>>
            /\ equity = cfg.initial_capital
            /\ position = None

C10_AbortStep ==
    (status' = "aborted" /\ runs' = runs + 1) => UNCHANGED <<account, portfolio_history>>

FreshAccount ==
    [equity |-> cfg.initial_capital, position |-> None, trades |-> <<>>,
     closed_trade_pnl |-> <<>>, total_profit |-> Zero, total_loss |-> Zero,
     winning_trades |-> 0, losing_trades |-> 0]

\* One iteration of the loop on the account a with the curve recorded so far.
RunBar(a, curve, bar) ==
    IF SkipBar(bar)
    THEN [acct |-> a, curve |-> Append(curve, EquityPoint(bar.timestamp, a.equity))]
    ELSE IF a.position # None /\ StopLossTriggered(a.position[1], bar)
    THEN LET b == CloseTrade(a, a.position[1].stop_loss_price, bar.timestamp, "StopLoss")
         IN  [acct |-> b, curve |-> Append(curve, EquityPoint(bar.timestamp, b.equity))]
    ELSE IF a.position # None /\ TakeProfitTriggered(a.position[1], bar)
    THEN LET b == CloseTrade(a, a.position[1].take_profit_price[1], bar.timestamp,
                             "TakeProfit")
         IN  [acct |-> b, curve |-> Append(curve, EquityPoint(bar.timestamp, b.equity))]
    ELSE LET out == Entry(a, EntrySignal(a.position, bar), bar)
         IN  [acct |-> out.acct,
              curve |-> Append(curve,
                               EquityPoint(bar.timestamp, PortfolioValue(out.acct, bar)))]

RECURSIVE RunBars(_, _, _, _)
RunBars(a, curve, frame, k) ==
    IF k > Len(frame)
    THEN [acct |-> a, curve |-> curve]
    ELSE LET s == RunBar(a, curve, frame[k])
         IN  RunBars(s.acct, s.curve, frame, k + 1)

FreshRun == RunBars(FreshAccount, <<>>, Data, 1)

(***************************************************************************)
(* C11: two runs with identical inputs yield identical trade ledgers and   *)
(* equity curves: whenever a call of run_backtest has completed, whether   *)
(* the first on its engine or a repeated one, the ledger and the equity    *)
(* curve are those of a run of the same frame and configuration on a new   *)
(* engine; nothing in them depends on what an earlier call left behind.    *)
(***************************************************************************)
C11_RepeatedRunIdentical ==
    status = "completed"
    => /\ trades = FreshRun.acct.trades
       /\ portfolio_history = FreshRun.curve

\* The first call on an engine does yield the ledger and curve of FreshRun.
C11_FirstRun ==
    (status = "completed" /\ runs = 1)
    => /\ trades = FreshRun.acct.trades
       /\ portfolio_history = FreshRun.curve
       /\ equity = FreshRun.acct.equity

(***************************************************************************)
(* C12: the EquityPoint recorded for a row is the cash when the engine is  *)
(* flat after the row's position logic, and otherwise                      *)
(* cash + direction_sign * (close - entry_price) * size of the open        *)
(* position, on every row at whose end a position is open.                 *)
(***************************************************************************)
DirectionSign(pos) == IF pos.direction = "LONG" THEN RI(1) ELSE RI(-1)

C12_Step ==
    (InLoop /\ i' = i + 1)
    => /\ Len(portfolio_history') = Len(portfolio_history) + 1
       /\ LET point == portfolio_history'[Len(portfolio_history')]
          IN  /\ point.timestamp = Bar.timestamp
              /\ point.equity =
                     IF position' = None
                     THEN equity'
                     ELSE LET pos == position'[1]
                          IN  RAdd(equity',
                                   RMul(DirectionSign(pos),
                                        RMul(RSub(Close(Bar), pos.entry_price), pos.size)))

C12_EquityPointValue == [][C12_Step]_vars

(***************************************************************************)
(* C13: the strategy is called only when no position is open.  A step that *)
(* handles a row and calls macd_ema_strategy started the row flat; on a    *)
(* row where a position is still open after the stop-loss and take-profit  *)
(* tests the strategy is not called and the account is left as it is; and  *)
(* a call that returns HOLD leaves equity, position, ledger and counters   *)
(* unchanged (the call itself changes nothing).                            *)
(***************************************************************************)
OpenAfterChecks ==
    /\ AtValidBar
    /\ position # None
    /\ ~CrossesStop(position[1], Bar)
    /\ ~CrossesTarget(position[1], Bar)

C13_Step ==
    /\ (InLoop /\ i' = i + 1 /\ queried') => position = None
    /\ OpenAfterChecks => (~queried' /\ UNCHANGED account)
    /\ (InLoop /\ i' = i + 1 /\ queried' /\ macd_ema_strategy(Bar, position) = "HOLD")
       => UNCHANGED account

C13_StrategyOnlyWhenFlat == [][C13_Step]_vars

\* Rows were handled both ways: the last one with a position open through
\* the checks and no call of the strategy, an earlier one flat with a call.
C13_Witness ==
    /\ status = "running"
    /\ i = 3
    /\ position # None
    /\ last_event = "holding"
    /\ ~queried
    /\ ~SkipBar(PrevBar)
    /\ Len(portfolio_history) >= 2
    /\ trades[Len(trades)].timestamp = 1

(***************************************************************************)
(* C14: an open transaction (a LONG or SHORT signal on a flat account with *)
(* a positive risk distance and size) succeeds if and only if              *)
(* equity >= margin + open_commission.  On success the equity drops by     *)
(* exactly open_commission (the margin is not deducted), the position is   *)
(* created with that margin and commission, and exactly one OPEN record is *)
(* appended, whose equity_after is the equity before minus                 *)
(* open_commission; otherwise nothing is opened or appended.               *)
(***************************************************************************)
C14_Step ==
    AtSignal =>
        LET signal == macd_ema_strategy(Bar, None)
            entry == Close(Bar)
            stop == StopLossPrice(signal, entry)
            risk_per_contract == RAbs(RSub(entry, stop))
            size == RDiv(RMul(equity, cfg.risk_per_trade), risk_per_contract)
            margin == RDiv(RMul(size, entry), cfg.leverage)
            open_commission == RMul(RMul(size, entry), cfg.commission_rate)
        IN  (RLt(Zero, risk_per_contract) /\ RLt(Zero, size)) =>
                IF RLe(RAdd(margin, open_commission), equity)
                THEN /\ equity' = RSub(equity, open_commission)
                     /\ position' # None
                     /\ position'[1].direction = signal
                     /\ position'[1].size = size
                     /\ position'[1].margin_used = margin
                     /\ position'[1].open_commission = open_commission
                     /\ Len(trades') = Len(trades) + 1
                     /\ SubSeq(trades', 1, Len(trades)) = trades
                     /\ trades'[Len(trades')].action =
                            (IF signal = "LONG" THEN "OPEN_LONG" ELSE "OPEN_SHORT")
                     /\ trades'[Len(trades')].commission = open_commission
                     /\ trades'[Len(trades')].equity_after = RSub(equity, open_commission)
                ELSE /\ equity' = equity
                     /\ position' = None
                     /\ trades' = trades

C14_OpenIffFunds == [][C14_Step]_vars

\* An open has succeeded with the equity exactly margin + open_commission.
C14_Witness ==
    /\ position # None
    /\ IsOpen(LastTrade)
    /\ cfg = FullMargin
    /\ LastTrade.margin_required = LastTrade.equity_after
    /\ position[1].margin_used = equity

\* An open has succeeded with a commission deducted and equity to spare.
C14_WitnessFees ==
    /\ position # None
    /\ IsOpen(LastTrade)
    /\ RLt(Zero, LastTrade.commission)
    /\ RLt(RAdd(LastTrade.margin_required, LastTrade.commission),
           RAdd(LastTrade.equity_after, LastTrade.commission))

(***************************************************************************)
(* C15: in the report of a completed run the Sharpe ratio is the "not      *)
(* applicable" value (None, logged as N/A), and not 0, when the series of  *)
(* daily returns has fewer than 2 values or a standard deviation of 0;     *)
(* otherwise it is mean / std * sqrt(252) of the daily returns.            *)
(***************************************************************************)
C15_SharpeSentinel ==
    (status = "completed" /\ report # None) =>
        LET daily_returns == DailyReturns(DailyEquity(portfolio_history))
            sharpe_ratio == report[1].sharpe_ratio
        IN  IF Len(daily_returns) < 2
               \/ \A j, k \in 1..Len(daily_returns) : daily_returns[j] = daily_returns[k]
            THEN sharpe_ratio = None
            ELSE /\ sharpe_ratio # None
                 /\ sharpe_ratio[1] =
                        [mean |-> Mean(daily_returns), std_of |-> daily_returns,
                         periods |-> 252]

\* The three cases of the Sharpe ratio all occur in completed runs: fewer
\* than 2 daily returns, equal daily returns, and a ratio.
C15_FewReturns ==
    /\ status = "completed"
    /\ Len(DailyReturns(DailyEquity(portfolio_history))) < 2
    /\ report[1].sharpe_ratio = Some(Zero)

C15_FlatReturns ==
    /\ status = "completed"
    /\ Len(DailyReturns(DailyEquity(portfolio_history))) >= 2
    /\ report[1].sharpe_ratio = Some(Zero)

C15_Ratio ==
    /\ status = "completed"
    /\ report[1].sharpe_ratio \notin {None, Some(Zero), Some(NaN)}

(***************************************************************************)
(* C16: in the report of a completed run the profit factor is              *)
(* total_profit / total_loss when total_loss > 0; it is the "undefined"    *)
(* value (float('inf') is taken for it) when total_loss = 0 and            *)
(* total_profit > 0; and with zero closed trades it is "not applicable":   *)
(* neither a number nor the undefined value.                               *)
(***************************************************************************)
IsFloat(x) == DOMAIN x = {"n", "d"}

C16_ProfitFactor ==
    (status = "completed" /\ report # None) =>
        LET profit_factor == report[1].profit_factor
        IN  /\ RLt(Zero, total_loss) => profit_factor = RDiv(total_profit, total_loss)
            /\ (total_loss = Zero /\ RLt(Zero, total_profit)) => profit_factor = Inf
            /\ Len(closed_trade_pnl) = 0 => ~IsFloat(profit_factor)

\* The cases of the profit factor in completed runs: losses, only profits,
\* no closed trade.
C16_WithLoss ==
    /\ status = "completed"
    /\ RLt(Zero, total_loss)
    /\ report[1].profit_factor = RDiv(total_profit, total_loss)

C16_OnlyProfit ==
    /\ status = "completed"
    /\ total_loss = Zero
    /\ RLt(Zero, total_profit)
    /\ report[1].profit_factor = Inf

C16_NoTrades ==
    /\ status = "completed"
    /\ Len(closed_trade_pnl) = 0
    /\ report[1].profit_factor = Inf

(***************************************************************************)
(* C17: a completed run with zero closed trades, zero winning trades or    *)
(* zero losing trades has its report (the metrics calculation does not     *)
(* raise), and in it no trade statistic whose denominator is zero is the   *)
(* number 0: win_rate, loss_rate and avg_pnl_per_trade with zero closed    *)
(* trades, avg_win with zero winning trades, avg_loss with zero losing     *)
(* trades.                                                                 *)
(***************************************************************************)
C17_NoSilentZero ==
    status = "completed" =>
        /\ report # None
        /\ metrics_calls = 1
        /\ Len(closed_trade_pnl) = 0 =>
               /\ report[1].win_rate # Zero
               /\ report[1].loss_rate # Zero
               /\ report[1].avg_pnl_per_trade # Zero
        /\ winning_trades = 0 => report[1].avg_win # Zero
        /\ losing_trades = 0 => report[1].avg_loss # Zero

\* The metrics calculation of a completed run never raises: the report is there.
C17_ReportProduced == status = "completed" => (report # None /\ metrics_calls = 1)

\* A completed run with closed trades, none of them winning.
C17_NoWinner ==
    /\ status = "completed"
    /\ Len(closed_trade_pnl) > 0
    /\ winning_trades = 0
    /\ report[1].avg_win = Zero
    /\ report[1].avg_loss # Zero

(***************************************************************************)
(* C18 (Scenario A): with initial_capital = 10000, risk_per_trade = 0.02,  *)
(* stop_loss_pct = 0.02, reward_ratio = 1.5 and leverage = 10, a Long      *)
(* signal at price 100 on a flat account holding the initial capital opens *)
(* a position with stop_loss_price = 98, take_profit_price = 103,          *)
(* size = 100 and margin_used = 1000.                                      *)
(***************************************************************************)
C18_Step ==
    (/\ AtSignal
     /\ cfg.initial_capital = RI(10000)
     /\ cfg.risk_per_trade = R(2, 100)
     /\ cfg.stop_loss_percentage = R(2, 100)
     /\ cfg.reward_ratio = R(15, 10)
     /\ cfg.leverage = RI(10)
     /\ equity = RI(10000)
     /\ macd_ema_strategy(Bar, None) = "LONG"
     /\ Close(Bar) = RI(100))
    => /\ position' # None
       /\ position'[1].direction = "LONG"
       /\ position'[1].entry_price = RI(100)
       /\ position'[1].stop_loss_price = RI(98)
       /\ position'[1].take_profit_price = Some(RI(103))
       /\ position'[1].size = RI(100)
       /\ position'[1].margin_used = RI(1000)

C18_ScenarioA == [][C18_Step]_vars

\* The first open of an engine with the Scenario A configuration, Long at 100.
C18_Witness ==
    /\ cfg = ScenarioA
    /\ runs = 1
    /\ Len(trades) = 1
    /\ position # None
    /\ LastTrade.action = "OPEN_LONG"
    /\ LastTrade.price = RI(100)
    /\ RAdd(LastTrade.equity_after, LastTrade.commission) = RI(10000)

(***************************************************************************)
(* C19: every opened position carries the stop-loss                        *)
(* entry * (1 - stop_loss_pct) for Long and entry * (1 + stop_loss_pct)    *)
(* for Short, and the take-profit entry + |entry - stop| * reward_ratio    *)
(* for Long and max(0, entry - |entry - stop| * reward_ratio) for Short;   *)
(* the take-profit of a Short is never negative.                           *)
(***************************************************************************)
C19_Stop(pos) ==
    IF pos.direction = "LONG"
    THEN RMul(pos.entry_price, RSub(RI(1), cfg.stop_loss_percentage))
    ELSE RMul(pos.entry_price, RAdd(RI(1), cfg.stop_loss_percentage))

C19_Target(pos) ==
    LET profit_target == RMul(RAbs(RSub(pos.entry_price, C19_Stop(pos))), cfg.reward_ratio)
    IN  IF pos.direction = "LONG"
        THEN RAdd(pos.entry_price, profit_target)
        ELSE IF RLe(Zero, RSub(pos.entry_price, profit_target))
             THEN RSub(pos.entry_price, profit_target)
             ELSE Zero

C19_StopAndTarget ==
    position # None =>
        /\ position[1].stop_loss_price = C19_Stop(position[1])
        /\ position[1].take_profit_price # None
        /\ position[1].take_profit_price[1] = C19_Target(position[1])
        /\ position[1].direction = "SHORT" => RLe(Zero, position[1].take_profit_price[1])

(***************************************************************************)
(* C19 as amended: every opened position carries that stop-loss; with      *)
(* reward_ratio > 0 it carries that take-profit, never negative for a      *)
(* Short; with reward_ratio <= 0 it carries no take-profit at all.         *)
(***************************************************************************)
C19_StopAndTargetIfReward ==
    position # None =>
        /\ position[1].stop_loss_price = C19_Stop(position[1])
        /\ IF RLt(Zero, cfg.reward_ratio)
           THEN /\ position[1].take_profit_price # None
                /\ position[1].take_profit_price[1] = C19_Target(position[1])
                /\ position[1].direction = "SHORT" =>
                       RLe(Zero, position[1].take_profit_price[1])
           ELSE position[1].take_profit_price = None

\* A Short is open whose profit target lay below 0 and was clamped.
C19_Witness ==
    /\ position # None
    /\ position[1].direction = "SHORT"
    /\ RLt(position[1].entry_price,
           RMul(RSub(position[1].stop_loss_price, position[1].entry_price),
                cfg.reward_ratio))
    /\ position[1].take_profit_price = Some(Zero)

\* A position is open under a reward ratio of 0.
C19_NoTargetOpen ==
    /\ position # None
    /\ cfg.reward_ratio = Zero

(***************************************************************************)
(* C20: once a run has reached Completed the account is never mutated      *)
(* again: the step that computes the metrics report leaves equity,         *)
(* position, ledger, equity curve and counters unchanged, and so does      *)
(* every step of the engine after a run has completed; in particular none  *)
(* appends to the ledger or the equity curve.                              *)
(***************************************************************************)
\* A call of run_backtest on this engine has completed: the latest one, or
\* an earlier one.  The running call has recorded i - 1 points; any more
\* were recorded by an earlier call, which on a frame with an `sma` column
\* ended by completing.
HasCompleted ==
    \/ status = "completed"
    \/ status = "running" /\ sma_column /\ Len(portfolio_history) > i - 1

C20_MetricsStep ==
    (status = "running" /\ status' = "completed") => UNCHANGED <<account, portfolio_history>>

C20_Step ==
    /\ C20_MetricsStep
    /\ HasCompleted => UNCHANGED <<account, portfolio_history>>

C20_NoMutationAfterCompleted == [][C20_Step]_vars

\* The metrics step alone leaves the account and the curve as they are.
C20_MetricsLeavesAccount == [][C20_MetricsStep]_vars

C22_NoDrawdown ==
    /\ status = "completed"
    /\ report # None
    /\ Len(portfolio_history) >= 2
    /\ report[1].max_drawdown = Zero
    /\ RLt(portfolio_history[1].equity, portfolio_history[2].equity)

(***************************************************************************)
(* C23: on a row handled with a position open, the stop-loss closes the    *)
(* position iff low <= stop (Long) or high >= stop (Short); with the       *)
(* stop-loss not hit, the take-profit closes it iff high >= take_profit    *)
(* (Long) or low <= take_profit (Short); the close record's price is       *)
(* exactly the stop or the take-profit price.                              *)
(***************************************************************************)
C23_Step ==
    (AtValidBar /\ position # None) =>
        LET pos == position[1]
            long == pos.direction = "LONG"
            hit_stop == IF long THEN RLe(Low(Bar), pos.stop_loss_price)
                        ELSE RLe(pos.stop_loss_price, High(Bar))
            hit_target == /\ pos.take_profit_price # None
                          /\ IF long THEN RLe(pos.take_profit_price[1], High(Bar))
                             ELSE RLe(Low(Bar), pos.take_profit_price[1])
            Closed(reason) == /\ Len(trades') = Len(trades) + 1
                              /\ IsClose(trades'[Len(trades')])
                              /\ trades'[Len(trades')].reason = reason
        IN  /\ Closed("StopLoss") <=> hit_stop
            /\ Closed("StopLoss") => trades'[Len(trades')].price = pos.stop_loss_price
            /\ Closed("TakeProfit") <=> (~hit_stop /\ hit_target)
            /\ Closed("TakeProfit") =>
                   trades'[Len(trades')].price = pos.take_profit_price[1]

C23_StopInsideBar ==
    /\ status = "running"
    /\ i > 1
    /\ last_event = "stop_loss"
    /\ LastTrade.action = "CLOSE_LONG"
    /\ RLe(Low(PrevBar), LastTrade.price)
    /\ RLt(LastTrade.price, Close(PrevBar))

(***************************************************************************)
(* C24: every CLOSE_* record of the ledger has the reason StopLoss or      *)
(* TakeProfit, and a step in which the strategy is queried appends no      *)
(* close record: no close is driven by the strategy.                       *)
(***************************************************************************)
C24_Reasons ==
    \A k \in 1..Len(trades) :
        IsClose(trades[k]) => trades[k].reason \in {"StopLoss", "TakeProfit"}

C24_Step ==
    queried' => \A k \in (Len(trades) + 1)..Len(trades') : ~IsClose(trades'[k])

C24_OnlyTriggerCloses == []C24_Reasons /\ [][C24_Step]_vars

\* The ledger holds the take-profit close of a Long.
C24_Witness ==
    \E k \in 1..Len(trades) :
        trades[k].action = "CLOSE_LONG" /\ trades[k].reason = "TakeProfit"

\* The ledger holds the stop-loss close of a Short.
C24_StopLossClose ==
    \E k \in 1..Len(trades) :
        trades[k].action = "CLOSE_SHORT" /\ trades[k].reason = "StopLoss"

(***************************************************************************)
(* C25: the trade ledger is append-only and well-formed: no step changes   *)
(* or removes a record; the records' timestamps are non-decreasing; opens  *)
(* and closes alternate strictly, starting with an open; each close has    *)
(* the direction and the size of the open before it; the number of opens   *)
(* minus the number of closes is 1 when a position is open and 0 when not. *)
(***************************************************************************)
C25_AppendOnly ==
    /\ Len(trades') >= Len(trades)
    /\ SubSeq(trades', 1, Len(trades)) = trades

C25_TimestampsOrdered ==
    \A k \in 1..(Len(trades) - 1) : trades[k].timestamp <= trades[k + 1].timestamp

C25_Alternation ==
    \A k \in 1..Len(trades) :
        IF k % 2 = 1 THEN IsOpen(trades[k])
        ELSE /\ IsClose(trades[k])
             /\ trades[k].size = trades[k - 1].size
             /\ (trades[k].action = "CLOSE_LONG") <=> (trades[k - 1].action = "OPEN_LONG")

C25_OpenCount ==
    LET opens == Cardinality({k \in 1..Len(trades) : IsOpen(trades[k])})
        closes == Cardinality({k \in 1..Len(trades) : IsClose(trades[k])})
    IN  opens - closes = IF position # None THEN 1 ELSE 0

C25_WellFormed == C25_TimestampsOrdered /\ C25_Alternation /\ C25_OpenCount

C25_LedgerWellFormed == []C25_WellFormed /\ [][C25_AppendOnly]_vars

\* The same within the first call of run_backtest on an engine.
C25_FirstRun == [](runs <= 1 => C25_WellFormed) /\ [][C25_AppendOnly]_vars

\* All of the claim but the order of the timestamps, over any number of calls.
C25_Shape == [](C25_Alternation /\ C25_OpenCount)

(***************************************************************************)
(* C26: after every close the counters agree with the ledger: winning      *)
(* plus losing trades is the number of close records, total_profit and     *)
(* total_loss are not negative, and total_profit - total_loss is the sum   *)
(* of the pnl of all close records.                                        *)
(***************************************************************************)
RECURSIVE SumClosePnl(_)
SumClosePnl(ledger) ==
    IF ledger = <<>> THEN Zero
    ELSE LET r == ledger[Len(ledger)]
             rest == SumClosePnl(SubSeq(ledger, 1, Len(ledger) - 1))
         IN  IF IsClose(r) THEN RAdd(rest, r.pnl) ELSE rest

C26_Consistent(ledger, wins, losses, profit, loss) ==
    /\ wins + losses = Cardinality({k \in 1..Len(ledger) : IsClose(ledger[k])})
    /\ RLe(Zero, profit)
    /\ RLe(Zero, loss)
    /\ RSub(profit, loss) = SumClosePnl(ledger)

C26_Closes == Len(trades') = Len(trades) + 1 /\ IsClose(trades'[Len(trades')])

C26_Step ==
    C26_Closes =>
        C26_Consistent(trades', winning_trades', losing_trades', total_profit', total_loss')

C26_CountersMatchLedger == [][C26_Step]_vars

\* The same for the closes of the first call of run_backtest on an engine.
C26_FirstRun == [][runs = 1 => C26_Step]_vars

(***************************************************************************)
(* C27: a run appends exactly one EquityPoint per bar, in bar order, on    *)
(* every path through the loop: once k bars are handled the equity curve   *)
(* has exactly k points and they carry the timestamps of those k bars.     *)
(***************************************************************************)
C27_OnePointPerBar(handled) ==
    /\ Len(portfolio_history) = handled
    /\ \A k \in 1..handled : portfolio_history[k].timestamp = Data[k].timestamp

C27_CurveFollowsBars ==
    (status \in {"running", "completed"}) => C27_OnePointPerBar(i - 1)

\* The same within the first call of run_backtest on an engine.
C27_FirstRun ==
    (runs = 1 /\ status \in {"running", "completed"}) => C27_OnePointPerBar(i - 1)

\* Every handled row appends one point with its timestamp, whatever the call.
C27_Step ==
    (InLoop /\ i' = i + 1) =>
        /\ Len(portfolio_history') = Len(portfolio_history) + 1
        /\ SubSeq(portfolio_history', 1, Len(portfolio_history)) = portfolio_history
        /\ portfolio_history'[Len(portfolio_history')].timestamp = Bar.timestamp

C27_PointPerStep == [][C27_Step]_vars

(***************************************************************************)
(* C28: in 执行回测 the take-profit / stop-loss checks come before the      *)
(* signals and a row appends at most one trade record: on a row where a    *)
(* take-profit or stop-loss sale fires, no signal sale and no signal       *)
(* purchase is made; and after any number of rows cash >= 0, holdings >= 0 *)
(* and the holdings are 0 exactly when the tracked position cost is 0.     *)
(***************************************************************************)
C28_LevelHit ==
    /\ RLt(Zero, holdings)
    /\ RLt(Zero, holding_cost)
    /\ LET average == RDiv(holding_cost, holdings)
       IN  \/ RLe(RMul(average, R(11, 10)), RowShape(SignalRow.kind).high)
           \/ RLe(RowShape(SignalRow.kind).low, RMul(average, R(9, 10)))

C28_Step ==
    SignalLooping =>
        /\ Len(trade_log') <= Len(trade_log) + 1
        /\ SubSeq(trade_log', 1, Len(trade_log)) = trade_log
        /\ (~RowShape(SignalRow.kind).no_range /\ C28_LevelHit) =>
               /\ Len(trade_log') = Len(trade_log) + 1
               /\ trade_log'[Len(trade_log')].type \in {"take_profit_sell", "stop_loss_sell"}
               /\ holdings' = Zero

C28_Account ==
    /\ RLe(Zero, cash)
    /\ RLe(Zero, holdings)
    /\ (holdings = Zero) <=> (holding_cost = Zero)

C28_LevelsBeforeSignals == []C28_Account /\ [][C28_Step]_vars

\* A take-profit or stop-loss sale was just made on a row that carries a
\* buy signal, with cash to buy.
C28_Witness ==
    /\ signal_pc = "looping"
    /\ row_no > 1
    /\ trade_log # <<>>
    /\ trade_log[Len(trade_log)].date = JoinedData[row_no - 1].date
    /\ trade_log[Len(trade_log)].type \in {"take_profit_sell", "stop_loss_sell"}
    /\ JoinedData[row_no - 1].signal = "buy"
    /\ RLt(RI(1), cash)

\* The same on a row that carries a sell signal.
C28_WitnessSell ==
    /\ signal_pc = "looping"
    /\ row_no > 1
    /\ trade_log # <<>>
    /\ trade_log[Len(trade_log)].date = JoinedData[row_no - 1].date
    /\ trade_log[Len(trade_log)].type = "take_profit_sell"
    /\ JoinedData[row_no - 1].signal = "sell"

C21_SameDay ==
    /\ signal_pc = "measured"
    /\ ~indicators[1].error
    /\ Len(backtest_result[1].value_history) = 2
    /\ indicators[1].annualized_return = [not_applicable |-> "duration"]

\* A report over a single point: "N/A".
C21_SinglePoint ==
    /\ signal_pc = "measured"
    /\ ~indicators[1].error
    /\ Len(backtest_result[1].value_history) = 1
    /\ indicators[1].annualized_return = [not_applicable |-> "duration"]

(***************************************************************************)
(* C29: a call of a function decorated with _retry_on_api_error            *)
(* (获取最新价格) whose request raises a network error or a retryable API   *)
(* error (-1003, -1015) is attempted again, up to MAX_RETRIES more times:  *)
(* it returns None only once MAX_RETRIES + 1 attempts have failed so; no   *)
(* call makes more than MAX_RETRIES + 1 attempts; a non-retryable API      *)
(* error ends the call after a single attempt with None.                   *)
(***************************************************************************)
C29_Retryable(answer) ==
    \/ answer.exception = "BinanceRequestException"
    \/ answer.exception = "BinanceAPIException" /\ answer.code \in {-1003, -1015}

C29_Step ==
    (/\ retry_pc = "calling"
     /\ attempts' = attempts + 1
     /\ requests' = requests + 1)
    => LET answer == api_answers[requests + 1]
       IN  /\ (C29_Retryable(answer) /\ attempts' <= MAX_RETRIES) => retry_pc' = "calling"
           /\ (C29_Retryable(answer) /\ attempts' = MAX_RETRIES + 1) =>
                  (retry_pc' = "returned" /\ call_result' = None)
           /\ (answer.exception = "BinanceAPIException" /\ ~C29_Retryable(answer)) =>
                  (retry_pc' = "returned" /\ call_result' = None)

C29_Attempts == attempts <= MAX_RETRIES + 1

C29_RetriedUpToMaxRetries == []C29_Attempts /\ [][C29_Step]_vars

\* The single attempt of a call whose request raised a non-retryable API error.
C29_NonRetryable ==
    (/\ retry_pc = "returned"
     /\ requests >= 1
     /\ api_answers[1].exception = "BinanceAPIException"
     /\ ~C29_Retryable(api_answers[1]))
    => (attempts = 1 /\ call_result = None)

(***************************************************************************)
(* C30: for valid parameters, a position and a price, 马丁格尔加仓策略      *)
(* puts the overall stop-loss first, then the take-profit, then the        *)
(* add-on: when the stop-loss or the take-profit condition holds the       *)
(* signal is CLOSE for the whole total_size with next_level None, also     *)
(* when the add-on distance is reached; ADD_LONG / ADD_SHORT is given only *)
(* with level < max_levels and then next_level = level + 1 <= max_levels;  *)
(* the position state passed in is not modified.                           *)
(***************************************************************************)
C30_Called ==
    /\ signal_output # None
    /\ position_state # None
    /\ position_state[1].total_size # Zero
    /\ analysis_data.current_price # None
    /\ analysis_data.current_price # Some(Zero)
    /\ ValidParams(MergedParams(strategy_params))

C30_Stop ==
    LET p == position_state[1]
        pct == RDiv(MergedParams(strategy_params).overall_stop_loss_pct_from_avg, RI(100))
        price == analysis_data.current_price[1]
    IN  IF p.direction = "LONG"
        THEN RLe(price, RMul(p.avg_price, RSub(RI(1), pct)))
        ELSE RLe(RMul(p.avg_price, RAdd(RI(1), pct)), price)

C30_Target ==
    LET p == position_state[1]
        pct == RDiv(MergedParams(strategy_params).take_profit_pct_from_avg, RI(100))
        price == analysis_data.current_price[1]
    IN  IF p.direction = "LONG"
        THEN RLe(RMul(p.avg_price, RAdd(RI(1), pct)), price)
        ELSE RLe(price, RMul(p.avg_price, RSub(RI(1), pct)))

C30_AddOnDistance ==
    LET p == position_state[1]
        pct == RDiv(MergedParams(strategy_params).level_distance_pct, RI(100))
        price == analysis_data.current_price[1]
    IN  IF p.direction = "LONG"
        THEN RLe(price, RMul(p.last_entry_price, RSub(RI(1), pct)))
        ELSE RLe(RMul(p.last_entry_price, RAdd(RI(1), pct)), price)

\* All of the claim but the size of a CLOSE.
C30_Order ==
    LET out == signal_output[1]
        level == position_state[1].level
        max_levels == MergedParams(strategy_params).max_levels
    IN  /\ C30_Stop => (out.signal = "CLOSE" /\ out.reason = "overall stop-loss")
        /\ (C30_Target /\ ~C30_Stop) => (out.signal = "CLOSE" /\ out.reason = "take-profit")
        /\ out.signal = "CLOSE" => out.next_level = None
        /\ out.signal \in {"ADD_LONG", "ADD_SHORT"} =>
               /\ RLt(RI(level), max_levels)
               /\ out.next_level = Some(level + 1)
               /\ RLe(RI(level + 1), max_levels)
        /\ position_state_after = position_state

C30_PriorityOrder ==
    C30_Called =>
        /\ C30_Order
        /\ signal_output[1].signal = "CLOSE" =>
               signal_output[1].size = position_state[1].total_size

\* The size of a CLOSE is total_size rounded to 6 decimals.
C30_PriorityOrderRounded ==
    C30_Called =>
        /\ C30_Order
        /\ signal_output[1].signal = "CLOSE" =>
               /\ RLe(RAbs(RSub(signal_output[1].size, position_state[1].total_size)),
                      R(1, 2000000))
               /\ 1000000 % signal_output[1].size.d = 0

\* The stop-loss condition and the add-on distance held together, below the
\* level limit, and the answer was CLOSE.
C30_Witness ==
    /\ C30_Called
    /\ C30_Stop
    /\ C30_AddOnDistance
    /\ RLt(RI(position_state[1].level), MergedParams(strategy_params).max_levels)
    /\ signal_output[1].signal = "CLOSE"
    /\ signal_output[1].size # position_state[1].total_size

\* The take-profit condition and the add-on distance held together.
C30_TargetAndAddOn ==
    /\ C30_Called
    /\ C30_Target
    /\ C30_AddOnDistance
    /\ RLt(RI(position_state[1].level), MergedParams(strategy_params).max_levels)
    /\ signal_output[1].signal = "CLOSE"

\* An add-on to the last level.
C30_AddOn ==
    /\ C30_Called
    /\ signal_output[1].signal = "ADD_SHORT"
    /\ signal_output[1].next_level = Some(2)
    /\ MergedParams(strategy_params).max_levels = RI(2)

====
